---- MODULE Spec2Model ----
(***************************************************************************)
(* Model of the agent runtime of packages/agents: the Unix-socket IPC      *)
(* client (src/ipc/socket_client.py) with its three threads (main loop,    *)
(* heartbeat loop, listen loop) and the task handling of the quality and   *)
(* security agents (src/quality_agent.py, src/security_agent.py).          *)
(*                                                                         *)
(* Time is a discrete clock in seconds advanced by Tick.  The orchestrator *)
(* is the environment: it accepts or refuses connections, sends task and   *)
(* ping messages and may close its end of the socket.                      *)
(***************************************************************************)
EXTENDS Integers, Sequences, FiniteSets, TLC

\* ---- bounds of the model ------------------------------------------------
NumTasks == 2            \* task messages the orchestrator sends under Spec
CooldownTasks == 12      \* task messages the orchestrator sends under SpecCooldown
MaxInbox == 1            \* unread inbound messages held by the socket
MaxTicks == 1            \* clock steps under Spec
CooldownMaxTicks == 3    \* clock steps under SpecCooldown
MaxSockets == 2          \* socket objects connect() may create
ReconnectSockets == 32   \* the same under SpecReconnect
MaxLines == 2            \* lines the orchestrator writes under SpecFraming
MaxRuns == 3             \* tool invocations under SpecTool
MaxAnalyses == 3         \* directory analyses that create a directory, SpecScratch
MaxStreak == 6           \* raising heartbeat iterations counted, SpecLoopErrors
MaxScope == 2            \* paths in the scope of a task
MaxFindings == 2         \* findings of a report under SpecSarif
ShutdownTasks == 1       \* task messages the orchestrator sends under SpecShutdown
CacheTicks == 1          \* clock steps of the cache
MaxItems == 2            \* largest max_items of a cache
MaxValue == 2            \* largest value increment() produces
MaxRecords == 3          \* records in one tool output

\* ---- program constants --------------------------------------------------
max_consecutive_errors == 10
error_threshold_cooldown == 300
max_reconnect_attempts == 30
reconnect_interval == 10
max_reconnect_interval == 60
loop_max_consecutive_errors == 5
max_file_size_mb == 5
complexity_threshold == 10
default_ttl == 3600
cache_ttl == 3600

\* One clock step is half a cooldown period, so that both sides of the
\* cooldown comparison and of a task deadline are reached.
TickSeconds == error_threshold_cooldown \div 2

\* One clock step of the cache is half the default time to live.
CacheTickSeconds == default_ttl \div 2

\* timeout_seconds values a task message carries: shorter than a clock step,
\* so that a task started before a step has expired after it.
TaskTimeouts == {100}

\* max_active_tasks is an attribute of the client which a deployment may
\* lower from its default.  SpecCooldown runs with the default.
default_max_active_tasks == 10
MaxActiveChoices == {0, 1, default_max_active_tasks}

VARIABLES
    \* SocketClient fields
    is_connected, is_running, stop_event, socket, sock_state,
    connect_count, disconnect_count, active_tasks, max_active_tasks,
    \* agent fields
    consecutive_errors, last_successful_run,
    \* main thread (_main_loop / connect / stop)
    mpc, reconnect_attempts, sockets_created, backoff,
    \* heartbeat thread (_heartbeat_loop / _cleanup_timed_out_tasks)
    hpc, h_time, scan_len, timed_out, h_errors,
    \* listen thread (_listen_loop / _handle_task / handle_task)
    lpc, cur,
    \* environment
    now, inbox, next_task, task_budget, time_limit, socket_budget,
    streak_budget,
    \* observers: whether the registration was written to the current socket,
    \* the task responses written for the task being handled, and the time of
    \* the failure that made consecutive_errors reach max_consecutive_errors
    registered, resp_count, threshold_time,
    \* observer: the heartbeat iterations in a row that have raised, counted
    \* up to streak_budget
    h_streak,
    \* bytes on the socket: what the orchestrator wrote on the connection,
    \* how much of it recv has returned, and the messages handed to handlers
    stream, rd_pos, delivered,
    \* one tool invocation: the runner, its position, the child process, the
    \* signals sent to the child, and the invocations that have returned
    tool, tpc, child, signals, runs,
    \* one directory analysis (standalone agents): its position, the
    \* temp_dir attribute, the scratch directories that exist (each with the
    \* result files in it), and the tools still to run
    dpc, temp_dir, dirs, tools_left,
    \* task handling of one agent: its config and findings attributes; for
    \* the last task it handled, the eligible files, the executables that
    \* were installed, what became of the output file, whether the cooldown
    \* check refused it, whether it was counted in consecutive_errors, the
    \* response given and the response a newly constructed agent gives to
    \* the same task;
    \* and the results of the last SARIF report generated
    config, findings, last_task, sarif_report,
    \* CacheStorage (memtech L1): the OrderedDict self.cache as the sequence
    \* of its entries, oldest first; time.time(); self.max_items;
    \* observers: the keys of the cache in the order of their most recent
    \* set or successful get, the keys _evict_if_needed removed in the last
    \* call of set, and the least recently used key at that call
    cache, clock, max_items, recency, evicted, lru,
    \* MemTechManager: the files of the L0 store, config["strategy"];
    \* observers: per key the value of a store() that returned True and has
    \* not been retrieved since, and the last retrieve() with its result
    l0, strategy, pending, retrieved,
    \* one run of a parser: the tool and the records of its output, and
    \* the findings the parser returned
    tool_output, parsed

clientVars == <<is_connected, is_running, stop_event, socket, sock_state,
                connect_count, disconnect_count, active_tasks, max_active_tasks>>
agentVars  == <<consecutive_errors, last_successful_run>>
mainVars   == <<mpc, reconnect_attempts, sockets_created, backoff>>
hbVars     == <<hpc, h_time, scan_len, timed_out, h_errors, h_streak>>
listenVars == <<lpc, cur>>
envVars    == <<now, inbox, next_task, task_budget, time_limit, socket_budget,
                streak_budget>>
obsVars    == <<registered, resp_count, threshold_time>>
ipcVars == <<clientVars, agentVars, mainVars, hbVars, listenVars, envVars, obsVars>>
wireVars == <<stream, rd_pos, delivered>>
toolVars == <<tool, tpc, child, signals, runs>>
scratchVars == <<dpc, temp_dir, dirs, tools_left>>
taskVars == <<config, findings, last_task, sarif_report>>
cacheVars == <<cache, clock, max_items, recency, evicted, lru>>
managerVars == <<l0, strategy, pending, retrieved>>
memtechVars == <<cacheVars, managerVars>>
parserVars == <<tool_output, parsed>>
componentVars == <<wireVars, toolVars, scratchVars, taskVars, memtechVars,
                   parserVars>>
vars == <<ipcVars, componentVars>>

None == 0                \* self.socket is None / no current task
NoValue == -1            \* the None that get() and retrieve() return
NoKey == "None"          \* no key

\* ---- helpers on the active_tasks dictionary -----------------------------
Keys(d) == DOMAIN d

DictSet(d, k, v) == [x \in (DOMAIN d) \cup {k} |-> IF x = k THEN v ELSE d[x]]

DictDel(d, k) == [x \in (DOMAIN d) \ {k} |-> d[x]]

EmptyDict == [x \in {} |-> 0]

Min(S) == CHOOSE x \in S : \A y \in S : x <= y

\* ---- send_message -------------------------------------------------------
\* The result of send_message in the current state:
\*   "false"  the guard `not self.is_connected or not self.socket` holds;
\*   "true"   socket.send succeeded and the line is on the wire;
\*   "raise"  socket.send raised OSError: the except clause then evaluates
\*            json.JSONEncodeError, which does not exist, so AttributeError
\*            leaves send_message and is_connected is not touched.
SendMessageResult ==
    IF ~is_connected \/ socket = None THEN "false"
    ELSE IF sock_state = "open" THEN "true"
    ELSE "raise"

\* socket.send is reached and raises OSError.
SocketSendFails == is_connected /\ socket # None /\ sock_state # "open"

\* The message of this send_message call is written to the socket.
Written == SendMessageResult = "true"

\* ---- admission and cooldown predicates ----------------------------------
\* (a variant of the check below that admits one task too many)
OverloadedOffByOne == Cardinality(Keys(active_tasks)) > max_active_tasks

\* _handle_task: len(self.active_tasks) >= self.max_active_tasks
Overloaded == Cardinality(Keys(active_tasks)) >= max_active_tasks

\* (a variant of the check below that never lets the cooldown expire)
InCooldownNoExpiry(t) == consecutive_errors >= max_consecutive_errors

\* handle_task: consecutive_errors >= max_consecutive_errors and
\*              time_since_last_success < error_threshold_cooldown
InCooldown(t) ==
    /\ consecutive_errors >= max_consecutive_errors
    /\ t - last_successful_run < error_threshold_cooldown

\* _cleanup_timed_out_tasks: current_time - start_time > timeout
Expired(info, t) == t - info.start_time > info.timeout

\* ---- initial state: after __init__ and start() have run -----------------
InitCommon ==
    /\ is_connected = FALSE
    /\ is_running = TRUE
    /\ stop_event = FALSE
    /\ socket = None
    /\ sock_state = "none"
    /\ connect_count = 0
    /\ disconnect_count = 0
    /\ active_tasks = EmptyDict
    /\ consecutive_errors = 0
    /\ last_successful_run = 0
    /\ mpc = "loop"
    /\ reconnect_attempts = 0
    /\ sockets_created = 0
    /\ backoff = 0
    /\ hpc = "loop"
    /\ h_errors = 0
    /\ h_streak = 0
    /\ h_time = 0
    /\ scan_len = 0
    /\ timed_out = {}
    /\ lpc = "loop"
    /\ cur = None
    /\ now = 0
    /\ inbox = <<>>
    /\ next_task = 1
    /\ registered = FALSE
    /\ resp_count = 0
    /\ threshold_time = -1

\* Nothing on the wire, no tool invocation and no directory analysis.
WireIdle == stream = <<>> /\ rd_pos = 0 /\ delivered = <<>>

ToolIdle ==
    /\ tool = "none" /\ tpc = "idle" /\ child = "none"
    /\ signals = <<>> /\ runs = 0

ScratchIdle ==
    /\ dpc = "idle" /\ temp_dir = None /\ dirs = EmptyDict /\ tools_left = <<>>

\* No task handled by the agent's pipeline and no report generated.
TaskIdle ==
    /\ config = EmptyDict /\ findings = <<>>
    /\ last_task = <<>> /\ sarif_report = <<>>

\* No tool output to parse.
ParserIdle == tool_output = [tool |-> "none", records |-> <<>>] /\ parsed = <<>>

\* No cache and no storage manager constructed.
MemtechIdle ==
    /\ cache = <<>> /\ clock = 0 /\ max_items = 0
    /\ recency = <<>> /\ evicted = <<>> /\ lru = NoKey
    /\ l0 = EmptyDict /\ strategy = EmptyDict
    /\ pending = EmptyDict /\ retrieved = <<>>

Init ==
    /\ InitCommon
    /\ WireIdle /\ ToolIdle /\ ScratchIdle /\ TaskIdle /\ MemtechIdle /\ ParserIdle
    /\ max_active_tasks \in MaxActiveChoices
    /\ task_budget = NumTasks
    /\ time_limit = MaxTicks * TickSeconds
    /\ socket_budget = MaxSockets
    /\ streak_budget = 0

\* ---- environment --------------------------------------------------------
Tick ==
    /\ now < time_limit
    /\ now' = now + TickSeconds
    /\ UNCHANGED <<clientVars, agentVars, mainVars, hbVars, listenVars,
                   inbox, next_task, task_budget, time_limit, socket_budget, streak_budget, obsVars>>
    /\ UNCHANGED componentVars

\* The task whose analysis the listen thread is running (None when idle).
RunningTask == IF lpc = "running" THEN cur ELSE None

\* The orchestrator writes a task message; ids are unique per message.  The
\* field during is not on the wire: it notes the task whose analysis was
\* running when the message arrived.
OrchSendTask ==
    /\ socket # None /\ sock_state = "open"
    /\ Len(inbox) < MaxInbox
    /\ next_task <= task_budget
    /\ \E to \in TaskTimeouts :
         inbox' = Append(inbox, [type |-> "task", id |-> next_task,
                                 timeout |-> to, during |-> RunningTask])
    /\ next_task' = next_task + 1
    /\ UNCHANGED <<clientVars, agentVars, mainVars, hbVars, listenVars,
                   now, task_budget, time_limit, socket_budget, streak_budget, obsVars>>
    /\ UNCHANGED componentVars

\* The orchestrator writes a ping.
OrchSendPing ==
    /\ socket # None /\ sock_state = "open"
    /\ Len(inbox) < MaxInbox
    /\ inbox' = Append(inbox, [type |-> "ping", id |-> None,
                               timeout |-> 0, during |-> RunningTask])
    /\ UNCHANGED <<clientVars, agentVars, mainVars, hbVars, listenVars,
                   now, next_task, task_budget, time_limit, socket_budget, streak_budget, obsVars>>
    /\ UNCHANGED componentVars

\* The orchestrator closes its end (or dies): sends on the socket fail from
\* now on and a read returns end of file.
PeerClose ==
    /\ socket # None /\ sock_state = "open"
    /\ sock_state' = "peer_closed"
    /\ UNCHANGED <<is_connected, is_running, stop_event, socket, connect_count,
                   disconnect_count, active_tasks, max_active_tasks,
                   agentVars, mainVars, hbVars, listenVars, envVars, obsVars>>
    /\ UNCHANGED componentVars

\* ---- main thread: _main_loop, connect, stop -----------------------------
\* (a variant of the interval below without the 60 s cap)
BackoffDelayUncapped(k) ==
    IF k < 24 THEN reconnect_interval * 2^k ELSE reconnect_interval * 2^24

\* _main_loop: min(base_reconnect_interval * (2**reconnect_attempts), 60).
\* Python integers are unbounded; the product is formed here only while it
\* fits the model's integers, and beyond that it exceeds the cap anyway.
BackoffDelay(k) ==
    IF k < 24
    THEN Min({reconnect_interval * 2^k, max_reconnect_interval})
    ELSE max_reconnect_interval

\* (a variant of the condition below under which the main loop connects
\* only when the client has never been connected)
CanConnectFirstOnly ==
    /\ mpc = "loop" /\ is_running /\ ~is_connected
    /\ reconnect_attempts < max_reconnect_attempts
    /\ sockets_created < socket_budget
    /\ connect_count = 0

\* _main_loop: the client is running and not connected, the attempt counter
\* is below its ceiling (and the model still has a socket object to create):
\* connect() is called.
CanConnect ==
    /\ mpc = "loop" /\ is_running /\ ~is_connected
    /\ reconnect_attempts < max_reconnect_attempts
    /\ sockets_created < socket_budget

\* connect(): a new socket object replaces self.socket; socket.connect
\* succeeds; is_connected and the metrics are set.  _send_registration is
\* the next step of the main thread (MRegister).
MConnectOk ==
    /\ CanConnect
    /\ sockets_created' = sockets_created + 1
    /\ socket' = sockets_created + 1
    /\ sock_state' = "open"
    /\ is_connected' = TRUE
    /\ connect_count' = connect_count + 1
    /\ inbox' = <<>>
    /\ registered' = FALSE
    /\ mpc' = "register"
    /\ UNCHANGED <<is_running, stop_event, disconnect_count, active_tasks,
                   max_active_tasks, agentVars, reconnect_attempts, backoff,
                   hbVars, listenVars, now, next_task, task_budget, time_limit, socket_budget, streak_budget,
                   resp_count, threshold_time>>
    /\ UNCHANGED componentVars

\* connect(): socket.connect raises; is_connected = False, the main loop
\* counts the attempt and sleeps for the backoff interval.
MConnectFail ==
    /\ CanConnect
    /\ sockets_created' = sockets_created + 1
    /\ socket' = sockets_created + 1
    /\ sock_state' = "unconnected"
    /\ is_connected' = FALSE
    /\ reconnect_attempts' = reconnect_attempts + 1
    /\ backoff' = BackoffDelay(reconnect_attempts)
    /\ inbox' = <<>>
    /\ registered' = FALSE
    /\ UNCHANGED <<is_running, stop_event, connect_count, disconnect_count,
                   active_tasks, max_active_tasks, agentVars, mpc, hbVars,
                   listenVars, now, next_task, task_budget, time_limit, socket_budget, streak_budget,
                   resp_count, threshold_time>>
    /\ UNCHANGED componentVars

\* connect() continues: _send_registration (send_message), return True, and
\* the main loop resets reconnect_attempts.  When send_message raises, the
\* exception leaves connect(), _main_loop and start(); the agent's main()
\* then runs stop() in its finally clause.
MRegister ==
    /\ mpc = "register"
    /\ registered' = Written
    /\ IF SendMessageResult = "raise"
       THEN /\ is_running' = FALSE
            /\ stop_event' = TRUE
            /\ mpc' = "stopping"
            /\ UNCHANGED reconnect_attempts
       ELSE /\ reconnect_attempts' = 0
            /\ mpc' = "loop"
            /\ UNCHANGED <<is_running, stop_event>>
    /\ UNCHANGED <<is_connected, socket, sock_state, connect_count,
                   disconnect_count, active_tasks, max_active_tasks, agentVars,
                   sockets_created, backoff, hbVars, listenVars, envVars,
                   resp_count, threshold_time>>
    /\ UNCHANGED componentVars

\* _main_loop: disconnected with reconnect_attempts at the ceiling, the loop
\* breaks and start() returns to its caller.  Neither is_running nor the stop
\* event is touched.
MReturn ==
    /\ mpc = "loop" /\ is_running /\ ~is_connected
    /\ reconnect_attempts >= max_reconnect_attempts
    /\ mpc' = "returned"
    /\ UNCHANGED <<clientVars, agentVars, reconnect_attempts, sockets_created,
                   backoff, hbVars, listenVars, envVars, obsVars>>
    /\ UNCHANGED componentVars

\* SIGINT/SIGTERM: _signal_handler runs stop() on the main thread; or the
\* caller of start() runs stop() after start() has returned (main() of the
\* quality agent does so in its finally clause, main() of the security agent
\* and the module's own entry point do not).  stop()
\* clears is_running and sets the stop event; it then joins both workers
\* with a 5 s timeout each, so it goes on whether or not they have ended.
MStop ==
    /\ mpc \in {"loop", "register", "returned"}
    /\ is_running' = FALSE
    /\ stop_event' = TRUE
    /\ mpc' = "stopping"
    /\ UNCHANGED <<is_connected, socket, sock_state, connect_count,
                   disconnect_count, active_tasks, max_active_tasks, agentVars,
                   reconnect_attempts, sockets_created, backoff, hbVars,
                   listenVars, envVars, obsVars>>
    /\ UNCHANGED componentVars

\* (a variant of the step below in which disconnect() does not reset
\* self.socket)
MDisconnectKeepSocket ==
    /\ mpc = "stopping"
    /\ socket' = socket
    /\ sock_state' = IF socket # None THEN "closed" ELSE sock_state
    /\ disconnect_count' = disconnect_count + 1
    /\ is_connected' = FALSE
    /\ mpc' = "exited"
    /\ UNCHANGED <<is_running, stop_event, connect_count, active_tasks,
                   max_active_tasks, agentVars, reconnect_attempts,
                   sockets_created, backoff, hbVars, listenVars, envVars,
                   obsVars>>
    /\ UNCHANGED componentVars

\* stop() continues after the joins: disconnect().
MDisconnect ==
    /\ mpc = "stopping"
    /\ socket' = None
    /\ sock_state' = IF socket # None THEN "closed" ELSE sock_state
    /\ disconnect_count' = disconnect_count + 1
    /\ is_connected' = FALSE
    /\ mpc' = "exited"
    /\ UNCHANGED <<is_running, stop_event, connect_count, active_tasks,
                   max_active_tasks, agentVars, reconnect_attempts,
                   sockets_created, backoff, hbVars, listenVars, envVars,
                   obsVars>>
    /\ UNCHANGED componentVars

\* ---- heartbeat thread: _heartbeat_loop, _cleanup_timed_out_tasks --------
\* An exception that reaches the except clause of _heartbeat_loop: the local
\* consecutive_errors is incremented; at max_consecutive_errors the loop
\* breaks, otherwise it waits a second and starts the next iteration.
HbAfterException ==
    /\ h_errors' = h_errors + 1
    /\ h_streak' = Min({h_streak + 1, streak_budget})
    /\ hpc' = IF h_errors + 1 >= loop_max_consecutive_errors THEN "ended" ELSE "loop"
    /\ h_time' = 0
    /\ scan_len' = 0
    /\ timed_out' = {}

\* Top of an iteration: consecutive_errors = 0, then
\* _cleanup_timed_out_tasks reads the clock and starts iterating over
\* self.active_tasks.items().
HScanBegin ==
    /\ hpc = "loop" /\ ~stop_event
    /\ h_errors' = 0
    /\ h_time' = now
    /\ scan_len' = Cardinality(Keys(active_tasks))
    /\ hpc' = "scan"
    /\ UNCHANGED <<clientVars, agentVars, mainVars, timed_out, h_streak,
                   listenVars, envVars, obsVars>>
    /\ UNCHANGED componentVars

\* The iteration ends normally: the dictionary kept its size, and the ids
\* whose deadline has passed are collected.
HScanEnd ==
    /\ hpc = "scan"
    /\ Cardinality(Keys(active_tasks)) = scan_len
    /\ timed_out' = {id \in Keys(active_tasks) : Expired(active_tasks[id], h_time)}
    /\ hpc' = "remove"
    /\ h_time' = 0
    /\ scan_len' = 0
    /\ UNCHANGED <<clientVars, agentVars, mainVars, h_errors, h_streak,
                   listenVars, envVars, obsVars>>
    /\ UNCHANGED componentVars

\* The listen thread inserted or deleted an entry during the iteration:
\* the dictionary iterator raises RuntimeError.
HScanRaise ==
    /\ hpc = "scan"
    /\ Cardinality(Keys(active_tasks)) # scan_len
    /\ HbAfterException
    /\ UNCHANGED <<clientVars, agentVars, mainVars, listenVars, envVars, obsVars>>
    /\ UNCHANGED componentVars

\* The removal loop reaches an id that is still in active_tasks.
HRemoveSends == timed_out # {} /\ Min(timed_out) \in Keys(active_tasks)

\* One pass of the removal loop: if the id is still present it is deleted
\* and send_task_response(id, "timeout") is called.
HRemove ==
    /\ hpc = "remove" /\ timed_out # {}
    /\ LET id == Min(timed_out) IN
         IF id \in Keys(active_tasks)
         THEN /\ active_tasks' = DictDel(active_tasks, id)
              /\ resp_count' = IF Written /\ id = cur THEN resp_count + 1 ELSE resp_count
              /\ IF SendMessageResult = "raise"
                 THEN HbAfterException
                 ELSE /\ timed_out' = timed_out \ {id}
                      /\ UNCHANGED <<hpc, h_time, scan_len, h_errors, h_streak>>
         ELSE /\ timed_out' = timed_out \ {id}
              /\ UNCHANGED <<active_tasks, hpc, h_time, scan_len, h_errors,
                             h_streak, resp_count>>
    /\ UNCHANGED <<is_connected, is_running, stop_event, socket, sock_state,
                   connect_count, disconnect_count, max_active_tasks, agentVars,
                   mainVars, listenVars, envVars, registered, threshold_time>>
    /\ UNCHANGED componentVars

\* After the sweep: if connected, a heartbeat carrying len(active_tasks) is
\* sent with send_message, whose exception reaches the except clause of the
\* loop; otherwise the iteration completes and the loop waits
\* heartbeat_interval on the stop event.
HBeat ==
    /\ hpc = "remove" /\ timed_out = {}
    /\ IF SendMessageResult = "raise"
       THEN HbAfterException
       ELSE /\ hpc' = "loop"
            /\ h_streak' = 0
            /\ UNCHANGED <<h_time, scan_len, timed_out, h_errors>>
    /\ UNCHANGED <<clientVars, agentVars, mainVars, listenVars, envVars, obsVars>>
    /\ UNCHANGED componentVars

\* while not self._stop_event.is_set() fails: the loop ends.
HEnd ==
    /\ hpc = "loop" /\ stop_event
    /\ hpc' = "ended"
    /\ UNCHANGED <<clientVars, agentVars, mainVars, h_time, scan_len,
                   timed_out, h_errors, h_streak, listenVars, envVars, obsVars>>
    /\ UNCHANGED componentVars

\* ---- listen thread: _listen_loop, _process_message, handlers ------------
\* recv returns data: the loop is running, connected, and a line is unread.
CanRead ==
    /\ lpc = "loop" /\ ~stop_event
    /\ is_connected /\ socket # None
    /\ sock_state \in {"open", "peer_closed"}
    /\ inbox # <<>>

\* _handle_ping: a pong is sent (send_message); an exception of
\* send_message is caught by _process_message.
LPing ==
    /\ CanRead
    /\ Head(inbox).type = "ping"
    /\ inbox' = Tail(inbox)
    /\ UNCHANGED <<clientVars, agentVars, mainVars, hbVars, listenVars,
                   now, next_task, task_budget, time_limit, socket_budget, streak_budget, obsVars>>
    /\ UNCHANGED componentVars

\* _handle_task, overload branch: the task is answered "rejected"
\* (send_task_response) and no entry is inserted.
LTaskReject ==
    /\ CanRead
    /\ Head(inbox).type = "task"
    /\ Overloaded
    /\ inbox' = Tail(inbox)
    /\ UNCHANGED <<clientVars, agentVars, mainVars, hbVars, listenVars,
                   now, next_task, task_budget, time_limit, socket_budget, streak_budget, obsVars>>
    /\ UNCHANGED componentVars

\* _handle_task, admission: the ActiveTask entry is stored; handle_task is
\* then run to completion on this thread (asyncio.run), see the steps below.
LTaskAdmit ==
    /\ CanRead
    /\ Head(inbox).type = "task"
    /\ ~Overloaded
    /\ inbox' = Tail(inbox)
    /\ active_tasks' = DictSet(active_tasks, Head(inbox).id,
                               [start_time |-> now, timeout |-> Head(inbox).timeout])
    /\ cur' = Head(inbox).id
    /\ lpc' = "dispatch"
    /\ resp_count' = 0
    /\ UNCHANGED <<is_connected, is_running, stop_event, socket, sock_state,
                   connect_count, disconnect_count, max_active_tasks, agentVars,
                   mainVars, hbVars, now, next_task, task_budget, time_limit, socket_budget, streak_budget,
                   registered, threshold_time>>
    /\ UNCHANGED componentVars

\* except clause of handle_task: the error counter is incremented.
ErrorBump ==
    /\ consecutive_errors' = consecutive_errors + 1
    /\ threshold_time' = IF consecutive_errors + 1 = max_consecutive_errors
                         THEN now ELSE threshold_time
    /\ UNCHANGED last_successful_run

\* (a variant of the step below that deletes the entry only when the
\* response was written)
TaskEndsKeepUnsent ==
    /\ active_tasks' = IF Written THEN DictDel(active_tasks, cur) ELSE active_tasks
    /\ lpc' = "loop"
    /\ cur' = None
    /\ resp_count' = 0

\* handle_task returns to the listen loop: send_task_response has deleted
\* the entry of the task and called send_message.
TaskEnds ==
    /\ active_tasks' = DictDel(active_tasks, cur)
    /\ lpc' = "loop"
    /\ cur' = None
    /\ resp_count' = 0

\* handle_task, cooldown branch: send_task_response(task_id, "failed", ...)
\* with cooldown_remaining, then return.  If the send raises, the exception
\* reaches _handle_task, whose second send_task_response raises as well and
\* is caught by _process_message.
LCooldownDeny ==
    /\ lpc = "dispatch"
    /\ InCooldown(now)
    /\ TaskEnds
    /\ UNCHANGED <<is_connected, is_running, stop_event, socket, sock_state,
                   connect_count, disconnect_count, max_active_tasks, agentVars,
                   mainVars, hbVars, envVars, registered, threshold_time>>
    /\ UNCHANGED componentVars

\* handle_task (quality agent), no eligible file: "done" is sent and the
\* method returns before the counters are reset.  If the send raises, the
\* except clause counts an error and its "failed" response raises too.
LEmptyScope ==
    /\ lpc = "dispatch"
    /\ ~InCooldown(now)
    /\ TaskEnds
    /\ IF SendMessageResult = "raise"
       THEN ErrorBump
       ELSE UNCHANGED <<agentVars, threshold_time>>
    /\ UNCHANGED <<is_connected, is_running, stop_event, socket, sock_state,
                   connect_count, disconnect_count, max_active_tasks,
                   mainVars, hbVars, envVars, registered>>
    /\ UNCHANGED componentVars

\* handle_task passes the cooldown check and the analysis starts.
LStartAnalysis ==
    /\ lpc = "dispatch"
    /\ ~InCooldown(now)
    /\ lpc' = "running"
    /\ UNCHANGED <<clientVars, agentVars, mainVars, hbVars, cur, envVars, obsVars>>
    /\ UNCHANGED componentVars

\* The analysis returned: "done" is sent, then the counters are reset.  If
\* the send raises, the except clause counts an error and its own "failed"
\* response raises too.
LFinishOk ==
    /\ lpc = "running"
    /\ TaskEnds
    /\ IF SendMessageResult = "raise"
       THEN ErrorBump
       ELSE /\ consecutive_errors' = 0
            /\ last_successful_run' = now
            /\ threshold_time' = -1
    /\ UNCHANGED <<is_connected, is_running, stop_event, socket, sock_state,
                   connect_count, disconnect_count, max_active_tasks,
                   mainVars, hbVars, envVars, registered>>
    /\ UNCHANGED componentVars

\* The analysis raised: the error counter is incremented and "failed" is
\* sent.
LFinishError ==
    /\ lpc = "running"
    /\ ErrorBump
    /\ TaskEnds
    /\ UNCHANGED <<is_connected, is_running, stop_event, socket, sock_state,
                   connect_count, disconnect_count, max_active_tasks,
                   mainVars, hbVars, envVars, registered>>
    /\ UNCHANGED componentVars

\* recv returns no bytes or raises OSError: is_connected = False.
LDetectClose ==
    /\ lpc = "loop" /\ ~stop_event
    /\ is_connected /\ socket # None
    /\ sock_state = "peer_closed"
    /\ is_connected' = FALSE
    /\ UNCHANGED <<is_running, stop_event, socket, sock_state, connect_count,
                   disconnect_count, active_tasks, max_active_tasks, agentVars,
                   mainVars, hbVars, listenVars, envVars, obsVars>>
    /\ UNCHANGED componentVars

\* while not self._stop_event.is_set() fails: the loop ends.
LEnd ==
    /\ lpc = "loop" /\ stop_event
    /\ lpc' = "ended"
    /\ UNCHANGED <<clientVars, agentVars, mainVars, hbVars, cur, envVars, obsVars>>
    /\ UNCHANGED componentVars

\* ---- listen thread at the level of bytes --------------------------------
\* The bytes of the connection, one string per byte class: the braces and
\* the body of a one-line JSON message, the line feed, and a byte that is
\* not valid UTF-8.
NL == "nl"
BadByte == "bad"
PingIds == {"1", "2"}
UnknownType == "u"

\* Lines the orchestrator may write: a ping with id 1 or 2, a message whose
\* type has no handler, a truncated JSON text, and a line of invalid UTF-8.
PingLine(i) == <<"{", i, "}">>
UnknownLine == <<"{", UnknownType, "}">>
TruncatedLine == <<"{", "1">>
BadUtf8Line == <<BadByte>>
Lines == {PingLine(i) : i \in PingIds} \cup {UnknownLine, TruncatedLine, BadUtf8Line}

\* The byte stream of a sequence of lines, each ended by a line feed.
RECURSIVE Flatten(_)
Flatten(ls) ==
    IF ls = <<>> THEN <<>> ELSE Head(ls) \o <<NL>> \o Flatten(Tail(ls))

Streams == {Flatten(ls) : ls \in UNION {[1..k -> Lines] : k \in 1..MaxLines}}

\* data.decode("utf-8") succeeds.
Decodes(chunk) == \A i \in 1..Len(chunk) : chunk[i] # BadByte

\* message_str.split("\n"): the maximal runs between line feeds.
RECURSIVE SplitNL(_)
SplitNL(s) ==
    IF s = <<>> THEN << <<>> >>
    ELSE LET rest == SplitNL(Tail(s)) IN
         IF Head(s) = NL
         THEN << <<>> >> \o rest
         ELSE << <<Head(s)>> \o Head(rest) >> \o Tail(rest)

\* _process_message: json.loads and IPCMessage(**message_data) succeed.
IsMessage(piece) ==
    /\ Len(piece) = 3
    /\ piece[1] = "{" /\ piece[3] = "}"
    /\ piece[2] \in PingIds \cup {UnknownType}

\* _process_message: self.message_handlers.get(message.type) finds a handler.
HasHandler(piece) == piece[2] \in PingIds

\* The ids handed to a handler for a list of pieces, in order; a piece that
\* is empty, does not parse or has no handler is logged and skipped.
Dispatched(pieces) ==
    LET sel == SelectSeq(pieces, LAMBDA q : IsMessage(q) /\ HasHandler(q))
    IN  [i \in 1..Len(sel) |-> sel[i][2]]

\* The body of the listen loop for one recv result: decode the whole buffer
\* (on UnicodeDecodeError the buffer is logged and dropped), strip, split at
\* line feeds and process every non-empty piece.  Nothing is kept for the
\* next read.
ProcessRead(chunk) ==
    IF Decodes(chunk) THEN Dispatched(SplitNL(chunk)) ELSE <<>>

\* recv(4096) returns the next n >= 1 unread bytes of the stream, and the
\* loop processes them.  A pong whose send raises is caught by
\* _process_message.
LRead ==
    /\ lpc = "loop" /\ ~stop_event
    /\ is_connected /\ socket # None /\ sock_state = "open"
    /\ rd_pos < Len(stream)
    /\ \E n \in 1..(Len(stream) - rd_pos) :
         /\ rd_pos' = rd_pos + n
         /\ delivered' = delivered \o ProcessRead(SubSeq(stream, rd_pos + 1, rd_pos + n))
    /\ UNCHANGED <<ipcVars, memtechVars, parserVars, taskVars, stream, toolVars, scratchVars>>

\* ---- tool invocations ---------------------------------------------------
\* The runners: _run_ruff_analysis and _run_eslint_analysis (quality agent),
\* _run_semgrep (security agent), _analyze_typescript_files (plugin).
Tools == {"ruff", "eslint", "semgrep", "tsc"}

\* The runner has a finally clause that cleans the child up; the TypeScript
\* plugin has none.
HasFinally(tl) == tl # "tsc"

\* Where the runner goes when its try block is left.
AfterTry(tl) == IF HasFinally(tl) THEN "finally" ELSE "returned"

\* subprocess.Popen succeeds: the child runs.
TSpawn ==
    /\ tpc = "idle" /\ runs < MaxRuns
    /\ tool' \in Tools
    /\ child' = "running"
    /\ signals' = <<>>
    /\ tpc' = "communicate"
    /\ UNCHANGED <<ipcVars, memtechVars, parserVars, taskVars, wireVars, runs, scratchVars>>

\* subprocess.Popen raises FileNotFoundError: no child; the runner logs and
\* returns.
TSpawnFail ==
    /\ tpc = "idle" /\ runs < MaxRuns
    /\ tool' \in Tools
    /\ child' = "none"
    /\ signals' = <<>>
    /\ tpc' = "returned"
    /\ UNCHANGED <<ipcVars, memtechVars, parserVars, taskVars, wireVars, runs, scratchVars>>

\* The child terminates, by itself or because of a signal; until it is
\* waited for it is a zombie.  A child may ignore terminate.
ChildExits ==
    /\ child = "running"
    /\ child' = "exited"
    /\ UNCHANGED <<ipcVars, memtechVars, parserVars, taskVars, wireVars, tool, tpc, signals, runs, scratchVars>>

\* process.communicate returns: the child has ended and has been waited for.
TCommunicateOk ==
    /\ tpc = "communicate" /\ child = "exited"
    /\ child' = "reaped"
    /\ tpc' = AfterTry(tool)
    /\ UNCHANGED <<ipcVars, memtechVars, parserVars, taskVars, wireVars, tool, signals, runs, scratchVars>>

\* process.communicate raises TimeoutExpired: the handler calls
\* process.kill() and then process.wait().
TTimeout ==
    /\ tpc = "communicate" /\ child = "running"
    /\ signals' = Append(signals, "kill")
    /\ tpc' = "kill_wait"
    /\ UNCHANGED <<ipcVars, memtechVars, parserVars, taskVars, wireVars, tool, child, runs, scratchVars>>

\* process.wait() of the timeout handler returns; the exception is logged
\* (ruff and semgrep re-raise it through their finally clause first).
TKillWait ==
    /\ tpc = "kill_wait" /\ child = "exited"
    /\ child' = "reaped"
    /\ tpc' = AfterTry(tool)
    /\ UNCHANGED <<ipcVars, memtechVars, parserVars, taskVars, wireVars, tool, signals, runs, scratchVars>>

\* process.communicate raises another exception (a TypeError for a timeout
\* that is not a number, an OSError, a MemoryError) whatever the child does.
TRaise ==
    /\ tpc = "communicate"
    /\ tpc' = AfterTry(tool)
    /\ UNCHANGED <<ipcVars, memtechVars, parserVars, taskVars, wireVars, tool, child, signals, runs, scratchVars>>

\* finally: if process.poll() is None the child is sent terminate and
\* waited for up to 5 s; poll() itself reaps a child that has ended.
TFinally ==
    /\ tpc = "finally"
    /\ IF child = "running"
       THEN /\ signals' = Append(signals, "terminate")
            /\ tpc' = "term_wait"
            /\ UNCHANGED child
       ELSE /\ child' = IF child = "exited" THEN "reaped" ELSE child
            /\ tpc' = "returned"
            /\ UNCHANGED signals
    /\ UNCHANGED <<ipcVars, memtechVars, parserVars, taskVars, wireVars, tool, runs, scratchVars>>

\* process.wait(timeout=5) returns.
TTermWaitOk ==
    /\ tpc = "term_wait" /\ child = "exited"
    /\ child' = "reaped"
    /\ tpc' = "returned"
    /\ UNCHANGED <<ipcVars, memtechVars, parserVars, taskVars, wireVars, tool, signals, runs, scratchVars>>

\* process.wait(timeout=5) raises TimeoutExpired: process.kill(), then
\* process.wait().
TTermWaitTimeout ==
    /\ tpc = "term_wait" /\ child = "running"
    /\ signals' = Append(signals, "kill")
    /\ tpc' = "final_wait"
    /\ UNCHANGED <<ipcVars, memtechVars, parserVars, taskVars, wireVars, tool, child, runs, scratchVars>>

\* process.wait() after the kill of the finally clause returns.
TFinalWait ==
    /\ tpc = "final_wait" /\ child = "exited"
    /\ child' = "reaped"
    /\ tpc' = "returned"
    /\ UNCHANGED <<ipcVars, memtechVars, parserVars, taskVars, wireVars, tool, signals, runs, scratchVars>>

\* The caller goes on; the Popen object is dropped.
TNext ==
    /\ tpc = "returned"
    /\ runs' = runs + 1
    /\ tool' = "none" /\ tpc' = "idle" /\ child' = "none" /\ signals' = <<>>
    /\ UNCHANGED <<ipcVars, memtechVars, parserVars, taskVars, wireVars, scratchVars>>

\* ---- directory analysis of the standalone agents -------------------------
\* analyze_directory (quality) and scan_directory (security) have the same
\* shape; the tools are named after the quality agent's.
ScratchTools == <<"ruff", "eslint", "lizard">>

\* The path does not exist: ValueError before any directory is created.
DBadPath ==
    /\ dpc = "idle"
    /\ dpc' = "raised"
    /\ UNCHANGED <<ipcVars, memtechVars, parserVars, taskVars, wireVars, toolVars, temp_dir, dirs, tools_left>>

\* tempfile.mkdtemp: a fresh directory, stored in self.temp_dir.
DMkdtemp ==
    /\ dpc = "idle"
    /\ temp_dir = None \/ temp_dir < MaxAnalyses
    /\ LET d == IF temp_dir = None THEN 1 ELSE temp_dir + 1 IN
         /\ temp_dir' = d
         /\ dirs' = DictSet(dirs, d, {})
    /\ tools_left' = ScratchTools
    /\ dpc' = "tools"
    /\ UNCHANGED <<ipcVars, memtechVars, parserVars, taskVars, wireVars, toolVars>>

\* The next tool is disabled in the configuration.
DToolSkip ==
    /\ dpc = "tools" /\ tools_left # <<>>
    /\ tools_left' = Tail(tools_left)
    /\ UNCHANGED <<ipcVars, memtechVars, parserVars, taskVars, wireVars, toolVars, dpc, temp_dir, dirs>>

\* The next tool is run by its _run_ method, which catches every exception
\* of its own; the tool has or has not written its result file into the
\* directory.
DToolRun ==
    /\ dpc = "tools" /\ tools_left # <<>>
    /\ \E wrote \in BOOLEAN :
         dirs' = [dirs EXCEPT ![temp_dir] =
                    IF wrote THEN @ \cup {Head(tools_left)} ELSE @]
    /\ tools_left' = Tail(tools_left)
    /\ UNCHANGED <<ipcVars, memtechVars, parserVars, taskVars, wireVars, toolVars, dpc, temp_dir>>

\* An exception leaves the try block while the tools are run (a KeyError
\* for a configuration without the tool's section): it is logged and
\* re-raised.
DToolRaise ==
    /\ dpc = "tools" /\ tools_left # <<>>
    /\ dpc' = "unwinding"
    /\ UNCHANGED <<ipcVars, memtechVars, parserVars, taskVars, wireVars, toolVars, temp_dir, dirs, tools_left>>

\* All tools done: the SARIF report and the summary are generated.
DReportOk ==
    /\ dpc = "tools" /\ tools_left = <<>>
    /\ dpc' = "returning"
    /\ UNCHANGED <<ipcVars, memtechVars, parserVars, taskVars, wireVars, toolVars, temp_dir, dirs, tools_left>>

\* Generating the report raises: logged and re-raised.
DReportRaise ==
    /\ dpc = "tools" /\ tools_left = <<>>
    /\ dpc' = "unwinding"
    /\ UNCHANGED <<ipcVars, memtechVars, parserVars, taskVars, wireVars, toolVars, temp_dir, dirs, tools_left>>

\* (a variant of the condition below that cleans up on the success path only)
RmtreeOnSuccess ==
    dpc = "returning" /\ temp_dir # None /\ temp_dir \in Keys(dirs)

\* finally: if self.temp_dir and os.path.exists(self.temp_dir)
RmtreeRuns == temp_dir # None /\ temp_dir \in Keys(dirs)

\* The finally clause: shutil.rmtree removes the directory and what is in
\* it; then the result is returned or the exception goes on.
DFinally ==
    /\ dpc \in {"returning", "unwinding"}
    /\ dirs' = IF RmtreeRuns THEN DictDel(dirs, temp_dir) ELSE dirs
    /\ dpc' = IF dpc = "returning" THEN "returned" ELSE "raised"
    /\ UNCHANGED <<ipcVars, memtechVars, parserVars, taskVars, wireVars, toolVars, temp_dir, tools_left>>

\* The caller goes on to its next analysis (main() analyses --scope and
\* then --root-scope with the same agent object).
DNext ==
    /\ dpc \in {"returned", "raised"}
    /\ dpc' = "idle"
    /\ tools_left' = <<>>
    /\ UNCHANGED <<ipcVars, memtechVars, parserVars, taskVars, wireVars, toolVars, temp_dir, dirs>>

\* ---- files and executables the agents find ------------------------------
\* The paths a task scope may name: two small Python files' worth of cases
\* (one within the size limit, one above it), a text file, a YAML file with
\* a syntax error, a directory, and a path that does not exist.
Paths == {"app.py", "big.py", "notes.txt", "conf.yaml", "src", "gone.py"}

\* os.path.exists / Path.exists
Exists(p) == p # "gone.py"

\* os.path.isdir, and the files os.walk finds below the directory
IsDir(p) == p = "src"
DirFiles(p) == IF IsDir(p) THEN {"src/mod.py", "src/README"} ELSE {}

\* os.path.isfile
IsFile(p) == Exists(p) /\ ~IsDir(p)

\* Path.stat().st_size, in bytes
StSize(p) == IF p = "big.py" THEN max_file_size_mb * 1024 * 1024 + 1 ELSE 1024

\* Path.suffix.lower()
Suffix(p) ==
    CASE p \in {"app.py", "big.py", "gone.py", "src/mod.py"} -> ".py"
      [] p = "notes.txt" -> ".txt"
      [] p = "conf.yaml" -> ".yaml"
      [] OTHER -> ""

\* task_data["scope"]: a list of paths, which may name a path twice
Scopes == UNION {[1..n -> Paths] : n \in 0..MaxScope}

\* task_data["output"]: absent, a path that can be written, one that cannot
Outputs == {"", "out/report.json", "/proc/report.json"}
Writable(o) == o \in {"out/report.json", "out/report.sarif"}

\* The elements of a list, and whether a list names an element twice
Range(s) == {s[i] : i \in 1..Len(s)}
HasDuplicates(s) == \E i, j \in 1..Len(s) : i # j /\ s[i] = s[j]

\* ---- quality agent: handle_task and what it calls -------------------------
\* QualityConfig() as __init__ builds it (the fields a task can change and
\* that decide which tools run)
QualityDefaults ==
    [scan_complexity |-> TRUE, scan_duplication |-> TRUE,
     analysis_mode |-> "standard"]

\* task_data["mode"]: the default and the mode that runs the plugins
Modes == {"standard", "syntax_extended"}

\* task_data["config"]: no override, or an override of scan_complexity
QualityOverrides ==
    {EmptyDict} \cup {DictSet(EmptyDict, "scan_complexity", v) : v \in BOOLEAN}

\* The executables on PATH when a task is handled: none, or all of them
QualityInstallations == {{}, {"ruff", "lizard"}}

\* A task message, with the executables present when it is handled
QualityTasks ==
    [scope : Scopes, mode : Modes, config : QualityOverrides,
     output : Outputs, installed : QualityInstallations]

\* _update_config followed by self.config.analysis_mode = mode: the keys
\* present in the task's config are assigned to self.config and stay there.
QualityUpdateConfig(cfg, task) ==
    [scan_complexity |->
        IF "scan_complexity" \in Keys(task.config)
        THEN task.config["scan_complexity"] ELSE cfg.scan_complexity,
     scan_duplication |->
        IF "scan_duplication" \in Keys(task.config)
        THEN task.config["scan_duplication"] ELSE cfg.scan_duplication,
     analysis_mode |-> task.mode]

\* _filter_quality_files: the extensions accepted in a mode
QualityExtensions(mode) ==
    IF mode = "yaml_strict"
    THEN {".yaml", ".yml"}
    ELSE {".py", ".js", ".jsx", ".ts", ".tsx", ".mjs", ".cjs"} \cup
         (IF mode = "syntax_extended" THEN {".yaml", ".yml"} ELSE {})

\* _filter_quality_files: each path of the scope, in order, that exists, is
\* not above the size limit and has an accepted extension.
KeepQualityFile(p, mode) ==
    /\ Exists(p)
    /\ ~(StSize(p) > max_file_size_mb * 1024 * 1024)
    /\ Suffix(p) \in QualityExtensions(mode)

RECURSIVE FilterQualityFiles(_, _)
FilterQualityFiles(scope, mode) ==
    IF scope = <<>> THEN <<>>
    ELSE (IF KeepQualityFile(Head(scope), mode) THEN <<Head(scope)>> ELSE <<>>)
         \o FilterQualityFiles(Tail(scope), mode)

\* Files whose name ends with one of the suffixes, in order
RECURSIVE EndsWith(_, _)
EndsWith(files, exts) ==
    IF files = <<>> THEN <<>>
    ELSE (IF Suffix(Head(files)) \in exts THEN <<Head(files)>> ELSE <<>>)
         \o EndsWith(Tail(files), exts)

\* What the tools report about the files: app.py has one lint violation
\* without an available fix and one function of cyclomatic complexity 12;
\* conf.yaml does not parse.
FunctionComplexity(p) == IF p = "app.py" THEN 12 ELSE 1

QualityFinding(tl, sev, line) ==
    [tool |-> tl, severity |-> sev, line_number |-> line]

\* _map_ruff_severity(fix availability)
map_ruff_severity(availability) ==
    IF availability = "none" THEN "error" ELSE "warning"

\* _map_complexity_severity
map_complexity_severity(c) ==
    IF c >= 20 THEN "error" ELSE IF c >= 15 THEN "warning" ELSE "info"

\* _run_ruff_analysis: FileNotFoundError is logged and no finding returned;
\* otherwise one finding per reported item, at the reported row.
RECURSIVE run_ruff_analysis(_, _)
run_ruff_analysis(files, installed) ==
    IF files = <<>> \/ "ruff" \notin installed THEN <<>>
    ELSE (IF Head(files) = "app.py"
          THEN <<QualityFinding("ruff", map_ruff_severity("none"), 1)>>
          ELSE <<>>)
         \o run_ruff_analysis(Tail(files), installed)

\* _run_complexity_analysis: FileNotFoundError is logged and no finding
\* returned; otherwise one finding per function above the threshold.
RECURSIVE run_complexity_analysis(_, _)
run_complexity_analysis(files, installed) ==
    IF files = <<>> \/ "lizard" \notin installed THEN <<>>
    ELSE (IF FunctionComplexity(Head(files)) > complexity_threshold
          THEN <<QualityFinding("lizard",
                   map_complexity_severity(FunctionComplexity(Head(files))), 1)>>
          ELSE <<>>)
         \o run_complexity_analysis(Tail(files), installed)

\* YAMLSyntaxPlugin.analyze followed by _convert_plugin_issues: a file that
\* does not parse gives an issue of severity "high" at the line of the
\* error, and the finding takes severity and start_line as they are.
RECURSIVE yaml_syntax_findings(_)
yaml_syntax_findings(files) ==
    IF files = <<>> THEN <<>>
    ELSE (IF Head(files) = "conf.yaml"
          THEN <<QualityFinding("yaml_syntax", "high", 1)>>
          ELSE <<>>)
         \o yaml_syntax_findings(Tail(files))

\* _run_syntax_plugins: the plugins that run in a mode (both are enabled)
PluginsOf(mode) ==
    CASE mode = "syntax_extended" -> {"yaml_syntax", "typescript_syntax"}
      [] mode = "yaml_strict" -> {"yaml_syntax"}
      [] OTHER -> {}

\* _run_quality_analysis on a non-empty list of files: each tool that is
\* enabled and has files is run and its name added to tools_used.  No file
\* of the model is a JavaScript or TypeScript file with findings, and no
\* two files are similar, so ESLint, the TypeScript plugin and the
\* duplication detection add their name but no finding.
run_quality_analysis(files, cfg, installed) ==
    LET python_files == EndsWith(files, {".py"})
        js_ts_files  == EndsWith(files, {".js", ".jsx", ".ts", ".tsx", ".mjs", ".cjs"})
    IN [findings |->
           (IF python_files # <<>> THEN run_ruff_analysis(python_files, installed)
            ELSE <<>>)
           \o (IF files # <<>> /\ cfg.scan_complexity
               THEN run_complexity_analysis(files, installed) ELSE <<>>)
           \o (IF "yaml_syntax" \in PluginsOf(cfg.analysis_mode)
               THEN yaml_syntax_findings(EndsWith(files, {".yaml", ".yml"}))
               ELSE <<>>),
        tools_used |->
           (IF python_files # <<>> THEN {"ruff"} ELSE {})
           \cup (IF js_ts_files # <<>> THEN {"eslint"} ELSE {})
           \cup (IF files # <<>> /\ cfg.scan_complexity THEN {"lizard"} ELSE {})
           \cup (IF files # <<>> /\ cfg.scan_duplication THEN {"duplication"} ELSE {})
           \cup PluginsOf(cfg.analysis_mode)]

\* _get_severity_breakdown (both agents): the findings counted under the
\* three keys; a finding of another severity is counted nowhere.
Severities == {"error", "warning", "info"}
get_severity_breakdown(fs) ==
    [s \in Severities |-> Cardinality({i \in 1..Len(fs) : fs[i].severity = s})]

\* The data of the task response handle_task sends
Response(st, n, breakdown, tools, err) ==
    [status |-> st, findings_count |-> n, severity_breakdown |-> breakdown,
     tools_used |-> tools, error |-> err]

\* The response of the cooldown branch
CooldownResponse == Response("failed", 0, EmptyDict, {}, "Agent in error state")

\* What handle_task answers to a task when self.config is cfg: "done" with
\* zero findings when no file is eligible; otherwise "done" with the
\* findings of the analysis, whether or not _save_results could write the
\* report (it logs the exception and returns).
QualityResponse(cfg, task) ==
    LET c     == QualityUpdateConfig(cfg, task)
        files == FilterQualityFiles(task.scope, c.analysis_mode)
        res   == run_quality_analysis(files, c, task.installed)
    IN IF files = <<>>
       THEN Response("done", 0, EmptyDict, {}, "")
       ELSE Response("done", Len(res.findings),
                     get_severity_breakdown(res.findings), res.tools_used, "")

\* _save_results: not called, the report written, or the write failed
SaveOutcome(files_found, output) ==
    IF ~files_found \/ output = "" THEN "none"
    ELSE IF Writable(output) THEN "written" ELSE "failed"

\* QualityAgent.handle_task, from the cooldown check to the response.
QHandleTask ==
    /\ \E task \in QualityTasks :
      IF InCooldown(now)
      THEN /\ last_task' = <<[files |-> <<>>, installed |-> task.installed,
                              save |-> "none", refused |-> TRUE,
                              counted_error |-> FALSE,
                              response |-> CooldownResponse,
                              fresh |-> QualityResponse(QualityDefaults, task)]>>
           /\ UNCHANGED <<config, findings, agentVars>>
      ELSE LET c     == QualityUpdateConfig(config, task)
               files == FilterQualityFiles(task.scope, c.analysis_mode)
               res   == run_quality_analysis(files, c, task.installed)
           IN /\ config' = c
              /\ findings' = IF files = <<>> THEN findings ELSE res.findings
              /\ last_task' = <<[files |-> files, installed |-> task.installed,
                                 save |-> SaveOutcome(files # <<>>, task.output),
                                 refused |-> FALSE, counted_error |-> FALSE,
                                 response |-> QualityResponse(config, task),
                                 fresh |-> QualityResponse(QualityDefaults, task)]>>
              /\ IF files = <<>>
                 THEN UNCHANGED agentVars
                 ELSE /\ consecutive_errors' = 0
                      /\ last_successful_run' = now
    /\ UNCHANGED <<clientVars, mainVars, hbVars, listenVars, envVars, obsVars,
                   wireVars, toolVars, scratchVars, sarif_report,
                   memtechVars, parserVars>>

\* ---- security agent: handle_task and what it calls ------------------------
\* SecurityConfig() as __init__ builds it
SecurityDefaults ==
    [scan_secrets |-> TRUE, scan_dependencies |-> TRUE,
     gitleaks_enabled |-> TRUE, osv_scanner_enabled |-> TRUE]

\* task_data["config"]: no override, or an override of scan_dependencies
SecurityOverrides ==
    {EmptyDict} \cup {DictSet(EmptyDict, "scan_dependencies", v) : v \in BOOLEAN}

\* The executables on PATH that can return findings (see run_semgrep)
SecurityInstallations == {{}, {"osv-scanner"}}

SecurityTasks ==
    [scope : Scopes, config : SecurityOverrides,
     output : {"", "out/report.sarif"}, installed : SecurityInstallations]

\* _update_config: the keys present in the task's config are assigned to
\* self.config and stay there.
SecurityUpdateConfig(cfg, task) ==
    [cfg EXCEPT !.scan_dependencies =
        IF "scan_dependencies" \in Keys(task.config)
        THEN task.config["scan_dependencies"] ELSE @]

\* An element of self.findings: a SecurityFinding, or a plain string
SecurityFinding(sev, path, line) ==
    [type |-> "SecurityFinding", value |-> "", severity |-> sev,
     file_path |-> path, line_number |-> line]
StrEntry(v) ==
    [type |-> "str", value |-> v, severity |-> "", file_path |-> "",
     line_number |-> 0]

\* hasattr(finding, "severity") and the like
HasAttr(f) == f.type = "SecurityFinding"

\* _is_security_relevant_file (none of the model's files has one of the
\* listed file names)
is_security_relevant_file(f) ==
    Suffix(f) \in {".py", ".js", ".ts", ".java", ".go", ".rs", ".c", ".cpp",
                   ".h", ".hpp", ".php", ".rb", ".swift", ".kt"}

\* _filter_security_files: every regular file the scope names, and the
\* relevant files below every directory it names, as a set.
filter_security_files(scope) ==
    {p \in Range(scope) : IsFile(p)}
    \cup UNION {{f \in DirFiles(p) : is_security_relevant_file(f)} :
                p \in {q \in Range(scope) : IsDir(q)}}

\* _run_semgrep and _run_gitleaks: a missing executable (FileNotFoundError)
\* and a timeout return []; when the tool runs to its end,
\* subprocess.CompletedProcess(cmd=cmd, ...) raises TypeError (the parameter
\* is called args), which the except Exception clause turns into [].
run_semgrep(files) == <<>>
run_gitleaks(files) == <<>>

\* _convert_osv_severity, on the values the scanner reports
convert_osv_severity(s) ==
    CASE s \in {"CRITICAL", "HIGH"} -> "error"
      [] s = "MEDIUM" -> "warning"
      [] s = "LOW" -> "info"
      [] OTHER -> "warning"

\* _run_dependency_analysis: a dictionary with the keys "findings" and
\* "tools_used".  No lock file is in the model's scopes, so npm audit and
\* pip-audit are not run; the OSV scanner is given every regular file of the
\* scope and, when installed, reports one vulnerability.
run_dependency_analysis(scope, cfg, installed) ==
    IF /\ cfg.osv_scanner_enabled
       /\ "osv-scanner" \in installed
       /\ \E p \in Range(scope) : IsFile(p)
    THEN [findings |-> <<SecurityFinding(convert_osv_severity("MODERATE"),
                                         "package-lock.json", 0)>>,
          tools_used |-> {"osv-scanner"}]
    ELSE [findings |-> <<>>, tools_used |-> {}]

\* list.extend(dep_results): iterating a dictionary yields its keys
ExtendWithDict(dep) == <<StrEntry("findings"), StrEntry("tools_used")>>

\* _run_security_analysis: with no eligible file the results are returned
\* before self.findings is assigned (stored is false); otherwise the tools
\* run, and since the dictionary of the dependency analysis is never empty
\* its keys are appended to the findings and its tools added to tools_used.
run_security_analysis(cfg, scope, installed) ==
    LET files == filter_security_files(scope)
        sem   == run_semgrep(files)
        git   == IF cfg.scan_secrets /\ cfg.gitleaks_enabled
                 THEN run_gitleaks(files) ELSE <<>>
        dep   == run_dependency_analysis(scope, cfg, installed)
    IN IF files = {}
       THEN [stored |-> FALSE, findings |-> <<>>, tools_used |-> {}]
       ELSE [stored |-> TRUE,
             findings |-> sem \o git \o
                 (IF cfg.scan_dependencies THEN ExtendWithDict(dep) ELSE <<>>),
             tools_used |->
                 (IF sem # <<>> THEN {"semgrep"} ELSE {})
                 \cup (IF git # <<>> THEN {"gitleaks"} ELSE {})
                 \cup (IF cfg.scan_dependencies THEN dep.tools_used ELSE {})]

\* str.lower() on the severities in use
Lower(s) ==
    CASE s = "ERROR" -> "error"
      [] s = "WARNING" -> "warning"
      [] s = "INFO" -> "info"
      [] OTHER -> s

\* os.path.relpath(path, repo_root) for paths below the repository root
Relpath(p) == IF p = "./app.py" THEN "app.py" ELSE p

\* _generate_sarif_report: one result per element of self.findings, with
\* level finding.severity.lower(), the relative path as uri and the line
\* number as startLine; an element without these attributes gets "warning",
\* "unknown" and 1.
generate_sarif_report(fs) ==
    [i \in 1..Len(fs) |->
        [level |-> IF HasAttr(fs[i]) THEN Lower(fs[i].severity) ELSE "warning",
         uri |-> IF HasAttr(fs[i]) THEN Relpath(fs[i].file_path) ELSE "unknown",
         startLine |-> IF HasAttr(fs[i]) THEN fs[i].line_number ELSE 1]]

\* _get_severity_breakdown reads finding.severity of every element: a plain
\* string raises AttributeError.
BreakdownRaises(fs) == \E i \in 1..Len(fs) : ~HasAttr(fs[i])

\* self.findings after _run_security_analysis, given what it was before
SecurityFindingsAfter(cfg, old, task) ==
    LET res == run_security_analysis(SecurityUpdateConfig(cfg, task),
                                     task.scope, task.installed)
    IN IF res.stored THEN res.findings ELSE old

\* What handle_task answers when self.config is cfg and self.findings is
\* old: "done" with len(self.findings) and the breakdown, or "failed" with
\* the exception that left the try block.
SecurityResponse(cfg, old, task) ==
    LET res == run_security_analysis(SecurityUpdateConfig(cfg, task),
                                     task.scope, task.installed)
        fs  == SecurityFindingsAfter(cfg, old, task)
    IN IF BreakdownRaises(fs)
       THEN Response("failed", 0, EmptyDict, {}, "AttributeError")
       ELSE Response("done", Len(fs), get_severity_breakdown(fs),
                     res.tools_used, "")

\* SecurityAgent.handle_task, from the cooldown check to the response.
SHandleTask ==
    /\ \E task \in SecurityTasks :
      IF InCooldown(now)
      THEN /\ last_task' = <<[files |-> {}, installed |-> task.installed,
                              save |-> "none", refused |-> TRUE,
                              counted_error |-> FALSE,
                              response |-> CooldownResponse,
                              fresh |-> SecurityResponse(SecurityDefaults, <<>>, task)]>>
           /\ UNCHANGED <<config, findings, sarif_report, agentVars>>
      ELSE LET fs   == SecurityFindingsAfter(config, findings, task)
               resp == SecurityResponse(config, findings, task)
           IN /\ config' = SecurityUpdateConfig(config, task)
              /\ findings' = fs
              /\ sarif_report' = <<generate_sarif_report(fs)>>
              /\ last_task' = <<[files |-> filter_security_files(task.scope),
                                 installed |-> task.installed,
                                 save |-> SaveOutcome(TRUE, task.output),
                                 refused |-> FALSE,
                                 counted_error |-> resp.status # "done",
                                 response |-> resp,
                                 fresh |-> SecurityResponse(SecurityDefaults, <<>>, task)]>>
              /\ IF resp.status = "done"
                 THEN /\ consecutive_errors' = 0
                      /\ last_successful_run' = now
                 ELSE /\ consecutive_errors' = consecutive_errors + 1
                      /\ UNCHANGED last_successful_run
    /\ UNCHANGED <<clientVars, mainVars, hbVars, listenVars, envVars, obsVars,
                   wireVars, toolVars, scratchVars, memtechVars, parserVars>>

\* The findings a report may be generated from: findings as the output
\* parsers build them, and the strings the dependency analysis leaves.
FindingEntries ==
    {SecurityFinding(s, p, l) : s \in Severities, p \in {"app.py", "./app.py"},
                                l \in {0, 1}}
    \cup {StrEntry("findings"), StrEntry("tools_used")}

SarifInputs == UNION {[1..n -> FindingEntries] : n \in 0..MaxFindings}

\* _generate_sarif_report applied to self.findings
GenerateSarifReport ==
    /\ sarif_report = <<>>
    /\ sarif_report' = <<generate_sarif_report(findings)>>
    /\ UNCHANGED <<ipcVars, memtechVars, parserVars, wireVars, toolVars, scratchVars, config, findings,
                   last_task>>

\* ---- parsers of tool output ---------------------------------------------
\* One record of a tool's JSON output, by the form of its optional object
\* (the fix of a Ruff item, the metadata of a Semgrep result): an object,
\* no such key, or null.  Record i is reported at line i.
FieldForms == {"object", "absent", "null"}
ToolOutputs == UNION {[1..n -> FieldForms] : n \in 0..MaxRecords}
Parsers == {"ruff", "semgrep"}

\* item.get("fix", {}).get("availability"): the fix objects of the model
\* carry an availability, a missing key gives None.
RuffAvailability(form) == IF form = "object" THEN "safe" ELSE "none"

\* _run_ruff_analysis, the loop over json.loads(result.stdout): one finding
\* is appended per item; item.get("fix", {}) is None for a null fix, the
\* .get on it raises AttributeError, which leaves the loop for the handler
\* `except Exception` of the function, and the findings appended so far
\* are returned.
RECURSIVE ruff_findings(_, _)
ruff_findings(items, i) ==
    IF i > Len(items) \/ items[i] = "null" THEN <<>>
    ELSE <<QualityFinding("ruff", map_ruff_severity(RuffAvailability(items[i])), i)>>
         \o ruff_findings(items, i + 1)

\* _convert_semgrep_severity
convert_semgrep_severity(s) ==
    CASE s = "ERROR" -> "error"
      [] s = "WARNING" -> "warning"
      [] OTHER -> "info"

\* result.get("metadata", {}).get("severity", "INFO"): the metadata objects
\* of the model carry the severity ERROR.
SemgrepSeverity(form) == IF form = "object" THEN "ERROR" ELSE "INFO"

\* _parse_semgrep_output, the loop over the results: one finding is
\* appended per result; a null metadata raises AttributeError, which the
\* handler around the loop catches, and the findings appended so far are
\* returned.
RECURSIVE parse_semgrep_output(_, _)
parse_semgrep_output(results, i) ==
    IF i > Len(results) \/ results[i] = "null" THEN <<>>
    ELSE <<SecurityFinding(convert_semgrep_severity(SemgrepSeverity(results[i])),
                           "app.py", i)>>
         \o parse_semgrep_output(results, i + 1)

\* The Ruff runner parses the output of the tool.
ParseRuff ==
    /\ tool_output.tool = "ruff" /\ parsed = <<>>
    /\ parsed' = <<ruff_findings(tool_output.records, 1)>>
    /\ UNCHANGED tool_output
    /\ UNCHANGED <<ipcVars, wireVars, toolVars, scratchVars, taskVars, memtechVars>>

\* The Semgrep parser is given the output of the tool.
ParseSemgrep ==
    /\ tool_output.tool = "semgrep" /\ parsed = <<>>
    /\ parsed' = <<parse_semgrep_output(tool_output.records, 1)>>
    /\ UNCHANGED tool_output
    /\ UNCHANGED <<ipcVars, wireVars, toolVars, scratchVars, taskVars, memtechVars>>

\* ---- memtech L1: CacheStorage -------------------------------------------
\* Keys and values of the calls.  StrValue stands for a value that is not
\* numeric (a string).
CacheKeys == {"a", "b", "c"}
StrValue == -2
CacheValues == {1, StrValue}

\* `ttl: Optional[int] = None`: the ttl arguments of the calls.
NoTtl == -1
Ttls == {NoTtl, 0, CacheTickSeconds}

KeysOf(c) == {c[i].key : i \in 1..Len(c)}

\* self.cache[key]
EntryOf(c, k) == c[CHOOSE i \in 1..Len(c) : c[i].key = k]

\* del self.cache[key], when the key is present
Remove(c, k) == SelectSeq(c, LAMBDA en : en.key # k)

\* _is_expired: a key that is not cached is expired; otherwise
\* time.time() > expiry.
is_expired(c, k, t) ==
    IF k \notin KeysOf(c) THEN TRUE ELSE t > EntryOf(c, k).expiry

\* _cleanup_expired: the entries with expiry <= current_time are deleted.
cleanup_expired(c, t) == SelectSeq(c, LAMBDA en : ~(en.expiry <= t))

\* (a variant of the loop below that evicts only above max_items)
RECURSIVE evict_if_over(_, _)
evict_if_over(c, n) ==
    IF Len(c) > n THEN evict_if_over(Tail(c), n) ELSE c

\* _evict_if_needed: while len(self.cache) >= self.max_items the first key
\* of the OrderedDict is deleted.
RECURSIVE evict_if_needed(_, _)
evict_if_needed(c, n) ==
    IF Len(c) >= n THEN evict_if_needed(Tail(c), n) ELSE c

\* The keys that _evict_if_needed deletes from c, in order.
EvictedFrom(c, n) ==
    [i \in 1..(Len(c) - Len(evict_if_needed(c, n))) |-> c[i].key]

\* set(): ttl defaults to default_ttl; expired entries are removed, then the
\* eviction loop runs, then the key is deleted if present and stored at the
\* end with its new expiry.
cache_set(c, n, k, v, ttl, t) ==
    Append(Remove(evict_if_needed(cleanup_expired(c, t), n), k),
           [key |-> k, value |-> v,
            expiry |-> t + (IF ttl = NoTtl THEN default_ttl ELSE ttl)])

\* (a variant of the step below that leaves the key where it is)
KeepInPlace(c, k) == c

\* get(): value, expiry = self.cache.pop(key); self.cache[key] = ...
MoveToEnd(c, k) == Append(Remove(c, k), EntryOf(c, k))

\* get(): a key that is missing or expired is deleted and None is
\* returned; otherwise the entry moves to the end and its value is returned.
cache_get(c, k, t) ==
    IF k \notin KeysOf(c) \/ is_expired(c, k, t)
    THEN [cache |-> Remove(c, k), value |-> NoValue]
    ELSE [cache |-> MoveToEnd(c, k), value |-> EntryOf(c, k).value]

\* exists(): key in self.cache and not self._is_expired(key)
exists(c, k, t) == k \in KeysOf(c) /\ ~is_expired(c, k, t)

\* list_keys(): _cleanup_expired(), then list(self.cache.keys())
list_keys(c, t) == KeysOf(cleanup_expired(c, t))

\* Observer: the key k has just been set or successfully read.
Used(r, k) == Append(SelectSeq(r, LAMBDA x : x # k), k)

\* Observer: only cached keys are kept.
Cached(r, c) == SelectSeq(r, LAMBDA x : x \in KeysOf(c))

\* Observer: of the keys of c, the one whose most recent set or successful
\* get is the oldest.
LruOf(r, c) ==
    IF Cached(r, c) = <<>> THEN NoKey ELSE Head(Cached(r, c))

\* One call of set() on the cache c with the observer r: the new cache and
\* the new values of the observers.
SetOn(c, r, k, v, ttl) ==
    LET live == cleanup_expired(c, clock)
        ev   == EvictedFrom(live, max_items)
        c2   == cache_set(c, max_items, k, v, ttl, clock)
    IN [cache |-> c2,
        recency |-> Cached(Used(r, k), c2),
        evicted |-> ev,
        lru |-> IF ev = <<>> THEN NoKey ELSE LruOf(r, live)]

\* The variables of the cache take the outcome of a call of set().
CacheBecomes(out) ==
    /\ cache' = out.cache
    /\ recency' = out.recency
    /\ evicted' = out.evicted
    /\ lru' = out.lru

\* A call that does not go through set(): the cache becomes c and the key k
\* counts as used if `hit`.
CacheAfterRead(c, k, hit) ==
    /\ cache' = c
    /\ recency' = Cached(IF hit THEN Used(recency, k) ELSE recency, c)
    /\ evicted' = <<>>
    /\ lru' = NoKey

\* set(key, value, ttl)
CSet ==
    /\ max_items >= 1
    /\ \E k \in CacheKeys, v \in CacheValues, ttl \in Ttls :
         CacheBecomes(SetOn(cache, recency, k, v, ttl))
    /\ UNCHANGED <<clock, max_items, managerVars>>
    /\ UNCHANGED <<ipcVars, wireVars, toolVars, scratchVars, taskVars, parserVars>>

\* get(key)
CGet ==
    /\ max_items >= 1
    /\ \E k \in CacheKeys :
         LET g == cache_get(cache, k, clock) IN
           CacheAfterRead(g.cache, k, g.value # NoValue)
    /\ UNCHANGED <<clock, max_items, managerVars>>
    /\ UNCHANGED <<ipcVars, wireVars, toolVars, scratchVars, taskVars, parserVars>>

\* delete(key)
CDelete ==
    /\ max_items >= 1
    /\ \E k \in CacheKeys : CacheAfterRead(Remove(cache, k), k, FALSE)
    /\ UNCHANGED <<clock, max_items, managerVars>>
    /\ UNCHANGED <<ipcVars, wireVars, toolVars, scratchVars, taskVars, parserVars>>

\* touch(key, ttl): a key that is cached and not expired is set again with
\* its value; otherwise nothing happens and False is returned.
CTouch ==
    /\ max_items >= 1
    /\ \E k \in CacheKeys, ttl \in Ttls :
         IF k \in KeysOf(cache) /\ ~is_expired(cache, k, clock)
         THEN CacheBecomes(SetOn(cache, recency, k, EntryOf(cache, k).value, ttl))
         ELSE CacheAfterRead(cache, k, FALSE)
    /\ UNCHANGED <<clock, max_items, managerVars>>
    /\ UNCHANGED <<ipcVars, wireVars, toolVars, scratchVars, taskVars, parserVars>>

\* increment(key, 1, ttl): get(key); a numeric value is set again, one
\* higher, with the default ttl; a value that is not numeric raises
\* ValueError, which is caught; a miss sets the key to delta with ttl.
CIncrement ==
    /\ max_items >= 1
    /\ \E k \in CacheKeys, ttl \in Ttls :
         LET g == cache_get(cache, k, clock)
             r == Cached(IF g.value # NoValue THEN Used(recency, k) ELSE recency,
                         g.cache)
         IN IF g.value = NoValue
            THEN CacheBecomes(SetOn(g.cache, r, k, 1, ttl))
            ELSE IF g.value # StrValue
            THEN /\ g.value < MaxValue
                 /\ CacheBecomes(SetOn(g.cache, r, k, g.value + 1, NoTtl))
            ELSE CacheAfterRead(g.cache, k, TRUE)
    /\ UNCHANGED <<clock, max_items, managerVars>>
    /\ UNCHANGED <<ipcVars, wireVars, toolVars, scratchVars, taskVars, parserVars>>

\* cleanup()
CCleanup ==
    /\ max_items >= 1
    /\ CacheAfterRead(cleanup_expired(cache, clock), NoKey, FALSE)
    /\ UNCHANGED <<clock, max_items, managerVars>>
    /\ UNCHANGED <<ipcVars, wireVars, toolVars, scratchVars, taskVars, parserVars>>

\* Time passes.
CTick ==
    /\ max_items >= 1
    /\ clock < CacheTicks * CacheTickSeconds
    /\ clock' = clock + CacheTickSeconds
    /\ UNCHANGED <<cache, max_items, recency, evicted, lru, managerVars>>
    /\ UNCHANGED <<ipcVars, wireVars, toolVars, scratchVars, taskVars, parserVars>>

\* ---- memtech: MemTechManager over L0 (files) and L1 (cache) --------------
\* The documents stored: two that json.dump and json.load give back equal,
\* and TupleData, a dict with a tuple in it, which comes back from a file as
\* ListData, the same dict with a list.
TupleData == 3
ListData == 4
Documents == {1, 2, TupleData}

\* The keys of the store and retrieve calls.
MgrKeys == {"a", "b"}

\* LocalStorage.store / retrieve: json.dump(..., default=str), json.load
json_round_trip(v) == IF v = TupleData THEN ListData ELSE v

\* store(key, data) with no ttl and no tags, L0 and L1 enabled, L2 and L3
\* not available.  With write_through the document is written to the L0
\* file and set in the cache with cache_ttl; without it only the L0 file is
\* written.  L0.store succeeded, so store() returns True.
MgrStore ==
    /\ strategy # EmptyDict
    /\ \E k \in MgrKeys, v \in Documents :
         /\ l0' = DictSet(l0, k, json_round_trip(v))
         /\ IF strategy.write_through
            THEN CacheBecomes(SetOn(cache, recency, k, v, cache_ttl))
            ELSE UNCHANGED <<cache, recency, evicted, lru>>
         /\ pending' = DictSet(pending, k, v)
    /\ retrieved' = <<>>
    /\ UNCHANGED <<clock, max_items, strategy>>
    /\ UNCHANGED <<ipcVars, wireVars, toolVars, scratchVars, taskVars, parserVars>>

\* What retrieve(key) returns: the cached value if get() has one, else the
\* document of the L0 file, else None.
RetrieveResult(k) ==
    IF cache_get(cache, k, clock).value # NoValue
    THEN cache_get(cache, k, clock).value
    ELSE IF k \in Keys(l0) THEN l0[k] ELSE NoValue

\* retrieve(key) with fallback_order l1, l0, l2: a hit in the cache is
\* returned; on a miss the L0 file is read and, with read_through, its
\* document is set in the cache with cache_ttl.
MgrRetrieve ==
    /\ strategy # EmptyDict
    /\ \E k \in MgrKeys :
         LET g == cache_get(cache, k, clock) IN
           /\ IF g.value # NoValue
              THEN CacheAfterRead(g.cache, k, TRUE)
              ELSE IF k \in Keys(l0) /\ strategy.read_through
              THEN CacheBecomes(SetOn(g.cache, Cached(recency, g.cache),
                                      k, l0[k], cache_ttl))
              ELSE CacheAfterRead(g.cache, k, FALSE)
           /\ retrieved' = <<[key |-> k, value |-> RetrieveResult(k),
                              expected |-> IF k \in Keys(pending)
                                           THEN pending[k] ELSE NoValue]>>
           /\ pending' = DictDel(pending, k)
    /\ UNCHANGED <<clock, max_items, l0, strategy>>
    /\ UNCHANGED <<ipcVars, wireVars, toolVars, scratchVars, taskVars, parserVars>>

\* ---- specifications -----------------------------------------------------
\* The three threads and the orchestrator, for a short run of tasks.  The
\* cooldown branch of handle_task needs max_consecutive_errors failed tasks
\* and is exercised under SpecCooldown.
Next ==
    \/ Tick \/ OrchSendTask \/ OrchSendPing \/ PeerClose
    \/ MConnectOk \/ MConnectFail \/ MRegister \/ MStop \/ MDisconnect
    \/ HScanBegin \/ HScanEnd \/ HScanRaise \/ HRemove \/ HBeat \/ HEnd
    \/ LPing \/ LTaskReject \/ LTaskAdmit \/ LEmptyScope
    \/ LStartAnalysis \/ LFinishOk \/ LFinishError \/ LDetectClose \/ LEnd

Spec == Init /\ [][Next]_vars

\* The agent's task handling over a long run of tasks: the client connects
\* and registers, the orchestrator sends CooldownTasks tasks, and the listen
\* thread handles them while the clock advances, until a signal stops the
\* client.  The heartbeat thread is asleep in its 30 s wait (it neither
\* reads nor writes consecutive_errors and last_successful_run) and the
\* orchestrator keeps the connection open.
InitCooldown ==
    /\ InitCommon
    /\ WireIdle /\ ToolIdle /\ ScratchIdle /\ TaskIdle /\ MemtechIdle /\ ParserIdle
    /\ max_active_tasks = default_max_active_tasks
    /\ task_budget = CooldownTasks
    /\ time_limit = CooldownMaxTicks * TickSeconds
    /\ socket_budget = MaxSockets
    /\ streak_budget = 0

NextCooldown ==
    \/ Tick \/ OrchSendTask
    \/ MConnectOk \/ MRegister \/ MStop \/ MDisconnect
    \/ HEnd
    \/ LTaskAdmit \/ LCooldownDeny \/ LEmptyScope
    \/ LStartAnalysis \/ LFinishOk \/ LFinishError \/ LEnd

SpecCooldown == InitCooldown /\ [][NextCooldown]_vars

\* Connection loss and reconnection without tasks: connect attempts fail or
\* succeed, the orchestrator may close an established connection, the listen
\* thread detects it, and the main loop retries until the attempt ceiling.
\* Every step of the program that is enabled is eventually taken; signals
\* and the orchestrator's choices are under no such obligation.
InitReconnect ==
    /\ InitCommon
    /\ WireIdle /\ ToolIdle /\ ScratchIdle /\ TaskIdle /\ MemtechIdle /\ ParserIdle
    /\ max_active_tasks = default_max_active_tasks
    /\ task_budget = 0
    /\ time_limit = 0
    /\ socket_budget = ReconnectSockets
    /\ streak_budget = 0

NextReconnect ==
    \/ PeerClose
    \/ MConnectOk \/ MConnectFail \/ MRegister \/ MReturn \/ MStop \/ MDisconnect
    \/ HScanBegin \/ HScanEnd \/ HBeat \/ HEnd
    \/ LDetectClose \/ LEnd

FairReconnect ==
    /\ WF_vars(HScanBegin \/ HScanEnd \/ HBeat \/ HEnd)
    /\ WF_vars(LDetectClose \/ LEnd)
    /\ WF_vars(MRegister \/ MReturn \/ MDisconnect)

SpecReconnect == InitReconnect /\ [][NextReconnect]_vars /\ FairReconnect

\* Errors inside the heartbeat loop: the client connects, the orchestrator
\* may close the connection, and the heartbeat iterations that raise in a
\* row are counted up to MaxStreak.
InitLoopErrors ==
    /\ InitCommon
    /\ WireIdle /\ ToolIdle /\ ScratchIdle /\ TaskIdle /\ MemtechIdle /\ ParserIdle
    /\ max_active_tasks = default_max_active_tasks
    /\ task_budget = 0
    /\ time_limit = 0
    /\ socket_budget = MaxSockets
    /\ streak_budget = MaxStreak

NextLoopErrors ==
    \/ PeerClose
    \/ MConnectOk \/ MConnectFail \/ MRegister \/ MStop \/ MDisconnect
    \/ HScanBegin \/ HScanEnd \/ HBeat \/ HEnd
    \/ LDetectClose \/ LEnd

SpecLoopErrors == InitLoopErrors /\ [][NextLoopErrors]_vars

\* The same behaviours with the scheduling of the three threads: every
\* enabled step of a thread is eventually taken; in particular the main
\* loop, which polls is_connected once a second, eventually calls connect()
\* when it finds the client disconnected (whether the call succeeds is the
\* orchestrator's choice).
FairRecovery ==
    /\ FairReconnect
    /\ WF_vars(MConnectOk \/ MConnectFail)

SpecRecovery == InitLoopErrors /\ [][NextLoopErrors]_vars /\ FairRecovery

\* Shutdown: the three threads and the orchestrator for ShutdownTasks tasks
\* with the clock at rest (no task times out), and the scheduling of the two
\* worker threads.  Each worker is a thread of its own (daemon=False), so a step
\* of it that stays enabled is eventually taken: the waits of both loops
\* are on the stop event or bounded by a timeout (recv 1 s, the tools'
\* timeouts).  Signals, the main thread and the orchestrator are under no
\* such obligation.
InitShutdown ==
    /\ InitCommon
    /\ WireIdle /\ ToolIdle /\ ScratchIdle /\ TaskIdle /\ MemtechIdle /\ ParserIdle
    /\ max_active_tasks \in {0, default_max_active_tasks}
    /\ task_budget = ShutdownTasks
    /\ time_limit = 0
    /\ socket_budget = MaxSockets
    /\ streak_budget = 0

NextShutdown ==
    \/ OrchSendTask \/ OrchSendPing \/ PeerClose
    \/ MConnectOk \/ MConnectFail \/ MRegister \/ MStop \/ MDisconnect
    \/ HScanBegin \/ HScanEnd \/ HScanRaise \/ HBeat \/ HEnd
    \/ LPing \/ LTaskReject \/ LTaskAdmit \/ LEmptyScope
    \/ LStartAnalysis \/ LFinishOk \/ LFinishError \/ LDetectClose \/ LEnd

FairShutdown ==
    /\ WF_vars(HScanBegin \/ HScanEnd \/ HScanRaise \/ HBeat \/ HEnd)
    /\ WF_vars(LPing \/ LTaskReject \/ LTaskAdmit \/ LEmptyScope
               \/ LStartAnalysis \/ LFinishOk \/ LFinishError
               \/ LDetectClose \/ LEnd)

SpecShutdown == InitShutdown /\ [][NextShutdown]_vars /\ FairShutdown

\* Framing: the client connects and registers, the orchestrator writes up to
\* MaxLines lines, and recv returns them in pieces of any size.
InitFraming ==
    /\ InitCommon
    /\ max_active_tasks = default_max_active_tasks
    /\ task_budget = 0
    /\ time_limit = 0
    /\ socket_budget = 1
    /\ streak_budget = 0
    /\ stream \in Streams /\ rd_pos = 0 /\ delivered = <<>>
    /\ ToolIdle /\ ScratchIdle /\ TaskIdle /\ MemtechIdle /\ ParserIdle

NextFraming == MConnectOk \/ MRegister \/ LRead

SpecFraming == InitFraming /\ [][NextFraming]_vars

\* The client as constructed and not started.
IpcIdle ==
    /\ InitCommon
    /\ max_active_tasks = default_max_active_tasks
    /\ task_budget = 0
    /\ time_limit = 0
    /\ socket_budget = 0
    /\ streak_budget = 0

\* Tool invocations, one after the other.
InitTool == IpcIdle /\ WireIdle /\ ToolIdle /\ ScratchIdle /\ TaskIdle /\ MemtechIdle /\ ParserIdle

NextTool ==
    \/ TSpawn \/ TSpawnFail \/ ChildExits
    \/ TCommunicateOk \/ TTimeout \/ TKillWait \/ TRaise
    \/ TFinally \/ TTermWaitOk \/ TTermWaitTimeout \/ TFinalWait \/ TNext

SpecTool == InitTool /\ [][NextTool]_vars

\* Directory analyses of a standalone agent, one after the other.
InitScratch == IpcIdle /\ WireIdle /\ ToolIdle /\ ScratchIdle /\ TaskIdle /\ MemtechIdle /\ ParserIdle

NextScratch ==
    \/ DBadPath \/ DMkdtemp \/ DToolSkip \/ DToolRun \/ DToolRaise
    \/ DReportOk \/ DReportRaise \/ DFinally \/ DNext

SpecScratch == InitScratch /\ [][NextScratch]_vars

\* The quality agent handling one task after another, each with any scope,
\* mode, config override, output path and set of installed tools.
InitQualityTasks ==
    /\ IpcIdle
    /\ WireIdle /\ ToolIdle /\ ScratchIdle /\ MemtechIdle /\ ParserIdle
    /\ config = QualityDefaults /\ findings = <<>>
    /\ last_task = <<>> /\ sarif_report = <<>>

NextQualityTasks == QHandleTask

SpecQualityTasks == InitQualityTasks /\ [][NextQualityTasks]_vars

\* The security agent handling one task after another.
InitSecurityTasks ==
    /\ IpcIdle
    /\ WireIdle /\ ToolIdle /\ ScratchIdle /\ MemtechIdle /\ ParserIdle
    /\ config = SecurityDefaults /\ findings = <<>>
    /\ last_task = <<>> /\ sarif_report = <<>>

NextSecurityTasks == SHandleTask

SpecSecurityTasks == InitSecurityTasks /\ [][NextSecurityTasks]_vars

\* The SARIF report of the security agent, generated from any list of up to
\* MaxFindings findings.
InitSarif ==
    /\ IpcIdle
    /\ WireIdle /\ ToolIdle /\ ScratchIdle /\ MemtechIdle /\ ParserIdle
    /\ config = SecurityDefaults /\ findings \in SarifInputs
    /\ last_task = <<>> /\ sarif_report = <<>>

NextSarif == GenerateSarifReport

SpecSarif == InitSarif /\ [][NextSarif]_vars

\* A CacheStorage with max_items between 1 and MaxItems, constructed with
\* no cache file on disk, under any sequence of calls while time passes.
InitCache ==
    /\ IpcIdle
    /\ WireIdle /\ ToolIdle /\ ScratchIdle /\ TaskIdle /\ ParserIdle
    /\ cache = <<>> /\ clock = 0 /\ max_items \in 1..MaxItems
    /\ recency = <<>> /\ evicted = <<>> /\ lru = NoKey
    /\ l0 = EmptyDict /\ strategy = EmptyDict
    /\ pending = EmptyDict /\ retrieved = <<>>

NextCache ==
    CSet \/ CGet \/ CDelete \/ CTouch \/ CIncrement \/ CCleanup \/ CTick

SpecCache == InitCache /\ [][NextCache]_vars

\* A MemTechManager with any setting of write_through and read_through,
\* constructed on empty directories, under any sequence of store and
\* retrieve calls while time passes.
InitManager ==
    /\ IpcIdle
    /\ WireIdle /\ ToolIdle /\ ScratchIdle /\ TaskIdle /\ ParserIdle
    /\ cache = <<>> /\ clock = 0 /\ max_items = MaxItems
    /\ recency = <<>> /\ evicted = <<>> /\ lru = NoKey
    /\ l0 = EmptyDict
    /\ strategy \in [write_through : BOOLEAN, read_through : BOOLEAN]
    /\ pending = EmptyDict /\ retrieved = <<>>

NextManager == MgrStore \/ MgrRetrieve \/ CTick

SpecManager == InitManager /\ [][NextManager]_vars

\* The parsers of Ruff and Semgrep output, each given any output of up to
\* MaxRecords records.
InitParsers ==
    /\ IpcIdle
    /\ WireIdle /\ ToolIdle /\ ScratchIdle /\ TaskIdle /\ MemtechIdle
    /\ tool_output \in [tool : Parsers, records : ToolOutputs]
    /\ parsed = <<>>

NextParsers == ParseRuff \/ ParseSemgrep

SpecParsers == InitParsers /\ [][NextParsers]_vars

\* ---- steps named by the properties --------------------------------------
\* The listen thread ends the handling of an admitted task.
ListenFinish == LCooldownDeny \/ LEmptyScope \/ LFinishOk \/ LFinishError

\* A step of the heartbeat or listen thread that calls send_message.
WorkerSend ==
    \/ (HBeat /\ is_connected)
    \/ (HRemove /\ HRemoveSends)
    \/ LPing \/ LTaskReject \/ ListenFinish

\* A step of any thread that calls send_message.
AnySend == WorkerSend \/ MRegister

\* 1 if the send_message call of this step writes its message, else 0.
WrittenNow == IF Written THEN 1 ELSE 0

\* The cooldown window of the claims: consecutive_errors has reached
\* max_consecutive_errors and fewer than error_threshold_cooldown seconds
\* have passed since the failure that reached it.
WithinCooldownWindow ==
    /\ consecutive_errors >= max_consecutive_errors
    /\ threshold_time >= 0
    /\ now - threshold_time < error_threshold_cooldown

\* ---- claims -------------------------------------------------------------
\* C1: for every admitted task exactly one task response with its id is
\* written to the socket: when the listen thread ends the handling of the
\* task, the responses written for it (by the timeout sweep and by this
\* final send) number exactly one.
C1_ExactlyOneResponse ==
    [][ListenFinish => resp_count + WrittenNow = 1]_vars

\* C2: on every connection the registration is the first message written:
\* no heartbeat, pong or task response of the heartbeat or listen thread is
\* written to a socket before the registration.
C2_RegistrationFirst ==
    [][(WorkerSend /\ Written) => registered]_vars

\* C3: in every reachable state active_tasks holds at most max_active_tasks
\* entries.
C3_ActiveTasksBounded ==
    Cardinality(Keys(active_tasks)) <= max_active_tasks

\* C3 witness: the limit is 1, one task is admitted and a further task
\* message is waiting to be read.
C3_AtLimit ==
    /\ max_active_tasks = 1
    /\ Cardinality(Keys(active_tasks)) = 1
    /\ inbox # <<>> /\ Head(inbox).type = "task"

\* C4: a message that arrives while a task's analysis is running is
\* handled before that analysis finishes: when the analysis finishes, no
\* message that arrived during it is still unread.
C4_ListenNotBlocked ==
    [][(LFinishOk \/ LFinishError) =>
         \A i \in 1..Len(inbox) : inbox[i].during # cur]_vars

\* C5: every task handled within error_threshold_cooldown seconds after the
\* failure that made consecutive_errors reach max_consecutive_errors is
\* denied with the cooldown response and its pipeline is not run.
C5_CooldownAfterThreshold ==
    [][(lpc = "dispatch" /\ lpc' # "dispatch" /\ WithinCooldownWindow)
         => LCooldownDeny]_vars

\* C6: consecutive_errors grows by exactly one when a task ends failed by a
\* pipeline error, and is zero right after every task that ends with a done
\* response.
C6_ErrorCounter ==
    [][/\ LFinishError => consecutive_errors' = consecutive_errors + 1
       /\ ((LFinishOk \/ LEmptyScope) /\ SendMessageResult # "raise")
            => consecutive_errors' = 0]_vars

\* C7: the cooldown is never permanent and never stops the agent: a task is
\* denied for cooldown only while fewer than error_threshold_cooldown
\* seconds have passed since the failure that reached the threshold, and the
\* loops end and is_running is cleared only once the stop event is set.
C7_CooldownNotPermanent ==
    [][/\ LCooldownDeny => now - threshold_time < error_threshold_cooldown
       /\ (lpc' = "ended" \/ hpc' = "ended" \/ ~is_running') => stop_event']_vars

\* C7 witness: with the error counter at or above the threshold, a task
\* received a full cooldown period after the failure that reached it is
\* running its analysis.
C7_AdmittedAfterCooldown ==
    /\ lpc = "running"
    /\ consecutive_errors >= max_consecutive_errors
    /\ threshold_time >= 0
    /\ cur \in Keys(active_tasks)
    /\ active_tasks[cur].start_time - threshold_time >= error_threshold_cooldown

\* C8: with max_active_tasks = 1 a task message that arrived while another
\* task's analysis was running is rejected and never entered into
\* active_tasks.
C8_SecondTaskRejected ==
    [][LTaskAdmit => ~(max_active_tasks = 1 /\ Head(inbox).during # None)]_vars

\* C9: a task denied by the admission gate (overload or cooldown) has no
\* ActiveTask entry between its receipt and its denial response.
C9_DeniedNeverActive ==
    [][/\ LCooldownDeny => cur \notin Keys(active_tasks)
       /\ LTaskReject => Head(inbox).id \notin Keys(active_tasks)]_vars

\* C10: when socket.send fails inside send_message while the client is
\* connected, send_message returns False and is_connected is false
\* afterwards.
C10_SendFailureReturnsFalse ==
    [][(AnySend /\ SocketSendFails) =>
         (SendMessageResult = "false" /\ ~is_connected')]_vars

\* C11: a transport failure is never surfaced as a task error: when the
\* analysis of a task has succeeded and socket.send fails while its done
\* response is sent, consecutive_errors is not incremented (the task does not
\* take the failed path of handle_task).
C11_TransportNotTaskError ==
    [][(LFinishOk /\ SocketSendFails)
         => consecutive_errors' <= consecutive_errors]_vars

\* C12: after max_reconnect_attempts consecutive failed connect attempts the
\* agent exits cleanly: once the main loop has ended on the ceiling, the
\* heartbeat and listen loops end as well.
C12_CleanExit ==
    (mpc = "returned") ~> (hpc = "ended" /\ lpc = "ended")

\* The wait sequence of C13: 10, 20, 40, 60, 60, ... seconds.
C13_Sequence(k) ==
    IF k = 0 THEN 10 ELSE IF k = 1 THEN 20 ELSE IF k = 2 THEN 40 ELSE 60

C14_TimedOutNotExecuting ==
    [][resp_count > 0 =>
         /\ ~(LStartAnalysis \/ LFinishOk \/ LFinishError)
         /\ ListenFinish => UNCHANGED agentVars]_vars

\* C17: accesses to active_tasks are mutually exclusive: while the sweep of
\* the heartbeat thread iterates over the dictionary, the listen thread
\* neither inserts nor removes an entry, so the iteration never finds the
\* dictionary changed.
C17_ActiveTasksExclusive ==
    [][/\ hpc = "scan" => active_tasks' = active_tasks
       /\ ~HScanRaise]_vars

\* C15: a message whose bytes are split across two socket reads is delivered
\* to its handler exactly once: when a stream that decodes has been read to
\* its end, in pieces of any size, the handlers have been given exactly the
\* messages of the whole stream, in order.
C15_SplitDeliveredOnce ==
    (rd_pos = Len(stream) /\ Decodes(stream))
        => delivered = Dispatched(SplitNL(stream))

\* C16: a protocol error (a malformed line or a message of unknown type)
\* leaves the connection state unchanged: after every read is_connected is
\* still true, the listen loop is still running, and every complete
\* well-formed line of that read has been handed to its handler.
C16_ProtocolErrorSkipped ==
    [][LRead =>
         /\ is_connected' /\ lpc' = "loop" /\ ~stop_event'
         /\ delivered' = delivered \o
              Dispatched(SplitNL(SubSeq(stream, rd_pos + 1, rd_pos')))]_vars

\* C18: under every exit path of a tool invocation (normal return, timeout,
\* any other exception) the child it spawned has terminated and has been
\* waited for when the invocation returns.
C18_ChildReaped ==
    tpc = "returned" => child \in {"none", "reaped"}

\* C19: on a timeout the child is sent terminate first and is killed only
\* after that: no kill is issued to a child that has not been sent terminate
\* before.
C19_TerminateBeforeKill ==
    \A i \in 1..Len(signals) :
        signals[i] = "kill" => \E j \in 1..(i - 1) : signals[j] = "terminate"

C29_FiveErrorsEndLoop ==
    /\ h_streak >= loop_max_consecutive_errors => hpc = "ended"
    /\ (hpc = "ended" /\ ~stop_event) => h_streak >= loop_max_consecutive_errors

\* The listen loop has read zero bytes or got a read error on the current
\* socket and has cleared is_connected; connect() has not been called since.
DropObserved == ~is_connected /\ sock_state = "peer_closed"

\* C30: after the listen loop has observed the loss of the connection
\* is_connected is false and, while the client is running and the attempt
\* counter is below its ceiling (and the model still has a socket to create),
\* the main loop eventually calls connect() again; and once a connect has
\* succeeded, the registration is eventually sent on it unless that
\* connection is lost or the client stopped first.
C30_ReconnectAfterDrop ==
    /\ (/\ DropObserved /\ is_running
        /\ reconnect_attempts < max_reconnect_attempts
        /\ sockets_created < socket_budget)
          ~> (sock_state # "peer_closed" \/ ~is_running)
    /\ (mpc = "register")
          ~> (registered \/ sock_state # "open" \/ ~is_running)

\* C30 witness: the client is connected for the second time, which it can
\* only be after the listen loop observed the loss of the first connection,
\* and the registration has been written to the new socket.
C30_ReconnectedRegistered ==
    /\ connect_count >= 2 /\ is_connected /\ is_running
    /\ sock_state = "open" /\ registered

\* The last task was handled by the analysis path of handle_task, not
\* refused by the cooldown check.
TaskAnalysed ==
    /\ last_task # <<>>
    /\ ~last_task[1].refused

\* C22: when the executable of a tool the analysis would run is absent from
\* PATH, the task does not fail and tools_used does not contain that tool:
\* a task with eligible Python files handled without ruff installed is not
\* answered failed and its tools_used does not name ruff.
C22_AbsentToolNotUsed ==
    (/\ TaskAnalysed
     /\ EndsWith(last_task[1].files, {".py"}) # <<>>
     /\ "ruff" \notin last_task[1].installed)
    => /\ last_task[1].response.status # "failed"
       /\ "ruff" \notin last_task[1].response.tools_used

\* C24: when an output path was requested and writing the report to it
\* fails, the task is answered failed, never done.
C24_SaveFailureFails ==
    (last_task # <<>> /\ last_task[1].save = "failed")
    => last_task[1].response.status = "failed"

\* C25: the outcome of a task depends only on its own inputs: the finding
\* count and severity breakdown of the response equal those a newly
\* constructed agent gives to the same task, whatever tasks and config
\* overrides the instance handled before.
C25_OutcomeDependsOnInputsOnly ==
    TaskAnalysed
    => /\ last_task[1].response.findings_count = last_task[1].fresh.findings_count
       /\ last_task[1].response.severity_breakdown
            = last_task[1].fresh.severity_breakdown

\* C26: the scope filter returns a list without duplicates of existing
\* regular files within the size limit whose extension is in the allow-list.
C26_FilterResult ==
    last_task # <<>>
    => /\ ~HasDuplicates(last_task[1].files)
       /\ \A f \in Range(last_task[1].files) :
            /\ IsFile(f)
            /\ StSize(f) <= max_file_size_mb * 1024 * 1024
            /\ Suffix(f) \in QualityExtensions(config.analysis_mode)

\* C27: every finding has a severity among error, warning and info and a
\* start line of at least 1.
C27_FindingDomain ==
    \A i \in 1..Len(findings) :
        /\ findings[i].severity \in Severities
        /\ findings[i].line_number >= 1

\* C21: a task with zero eligible files is answered done with
\* findings_count 0 and an empty tools_used, whatever tasks the instance
\* handled before.
C21_EmptyScopeDone ==
    (TaskAnalysed /\ last_task[1].files = {})
    => /\ last_task[1].response.status = "done"
       /\ last_task[1].response.findings_count = 0
       /\ last_task[1].response.tools_used = {}

\* C23: the security agent absorbs tool errors: a task with at least one
\* eligible file, handled while none of its tools can return a result, is
\* answered done and does not increment consecutive_errors.
C23_ToolErrorsAbsorbed ==
    (/\ TaskAnalysed
     /\ last_task[1].files # {}
     /\ last_task[1].installed = {})
    => /\ last_task[1].response.status = "done"
       /\ ~last_task[1].counted_error

C31_StopTerminates ==
    /\ stop_event ~> (hpc = "ended" /\ lpc = "ended")
    /\ [][(socket # None /\ socket' = None)
            => (mpc = "stopping" /\ stop_event /\ ~is_running)]_vars
    /\ [](mpc = "exited" => (~is_connected /\ socket = None))

\* stop() has returned after a connection on which a task was sent, and
\* both workers have ended.
C31_StoppedAfterTask ==
    /\ mpc = "exited" /\ hpc = "ended" /\ lpc = "ended"
    /\ connect_count >= 1 /\ next_task > 1
    /\ ~is_connected /\ socket = None

\* C34: the connection metrics follow the connection state: disconnect_count
\* never exceeds connect_count, and connect_count - disconnect_count is 1
\* while the client is connected and 0 while it is not.
C34_MetricsTrackState ==
    /\ disconnect_count <= connect_count
    /\ connect_count - disconnect_count = (IF is_connected THEN 1 ELSE 0)

\* C33: at most one task is in active_tasks at any time, and the entry that
\* _handle_task inserted is gone when _handle_task returns, whichever way
\* handle_task ended (done, failed, cooldown denial, exception).
C33_OneActiveTask ==
    /\ [](Cardinality(Keys(active_tasks)) <= 1)
    /\ [](lpc \in {"loop", "ended"} => active_tasks = EmptyDict)
    /\ [][ListenFinish => (cur # None /\ active_tasks' = EmptyDict)]_vars

\* _handle_task has returned from a task that failed: its entry was
\* inserted and is gone, and no message is waiting.
C33_FailedTaskRemoved ==
    /\ lpc = "loop" /\ cur = None
    /\ next_task > 1 /\ inbox = <<>>
    /\ consecutive_errors >= 1
    /\ active_tasks = EmptyDict

\* C35: a cache with max_items >= 1 that started within its limit never
\* holds more than max_items entries, whatever calls of set, get, delete,
\* touch, increment and cleanup are made.
C35_CacheBounded ==
    max_items >= 1 => Len(cache) <= max_items

\* A call of set() found the cache full, evicted an entry, and the cache
\* is full again.
C35_FullAfterEviction ==
    /\ max_items >= 1
    /\ Len(cache) = max_items
    /\ evicted # <<>>

\* C36: eviction is LRU: when set() evicts, it evicts exactly the cached,
\* unexpired key whose most recent set or successful get is the oldest.
C36_EvictionIsLru ==
    evicted # <<>> => evicted = <<lru>>

\* A call of set() on a full cache of two entries evicted one key, the
\* least recently used one, and kept the other.
C36_EvictedOneOfTwo ==
    /\ max_items = 2 /\ Len(cache) = 2
    /\ evicted = <<"b">> /\ lru = "b"
    /\ cache[1].key = "a" /\ cache[2].key = "c"

\* C37: set() on a key that is cached and not expired changes only that
\* key: every other entry that has not reached its expiry is still cached
\* with the same value afterwards.
C37_SetChangesOnlyItsKey ==
    [][\A k \in CacheKeys, v \in CacheValues, ttl \in Ttls :
         (/\ max_items >= 1
          /\ exists(cache, k, clock)
          /\ clock' = clock
          /\ CacheBecomes(SetOn(cache, recency, k, v, ttl)))
         => \A i \in 1..Len(cache) :
              (cache[i].key # k /\ cache[i].expiry > clock)
              => (/\ cache[i].key \in KeysOf(cache')
                  /\ EntryOf(cache', cache[i].key).value = cache[i].value)]_vars

\* C38: the read operations agree on expiry: at every time and for every
\* key, exists(key) holds exactly if get(key) returns a value and exactly
\* if the key is in list_keys().
C38_ReadsAgree ==
    max_items >= 1
    => \A k \in CacheKeys :
         /\ exists(cache, k, clock) <=> (cache_get(cache, k, clock).value # NoValue)
         /\ exists(cache, k, clock) <=> (k \in list_keys(cache, clock))

\* C39: the manager never serves a stale value: after store(key, v) has
\* returned True, the next retrieve(key) returns v, for every document v
\* that a JSON file gives back equal.
C39_NoStaleValue ==
    (/\ retrieved # <<>>
     /\ retrieved[1].expected # NoValue
     /\ json_round_trip(retrieved[1].expected) = retrieved[1].expected)
    => retrieved[1].value = retrieved[1].expected

\* C32: a record with a null where an object is expected costs no other
\* record its finding: every record of the output whose optional object is
\* present or absent has its finding in what the parser returns.
C32_OtherRecordsKept ==
    parsed # <<>>
    => \A i \in 1..Len(tool_output.records) :
          tool_output.records[i] # "null"
          => \E j \in 1..Len(parsed[1]) : parsed[1][j].line_number = i

====
